---- MODULE Spec2Model ----
(***************************************************************************)
(* Dual-write receipt ingestion: pos_integration/dual_write_handler.py     *)
(* (get_pool, DualWriteHandler.write_receipt, write_batch,                 *)
(* _write_to_lakebase), infra/zerobus_client.py (ingest_receipt,          *)
(* ingest_batch), pos_integration/models.py (validators), the bronze and   *)
(* silver pipelines (quality gate, apply_changes) and                      *)
(* pipelines/sync_to_lakebase.py (wait_for_active, reconcile_gaps).        *)
(*                                                                         *)
(* Every write_receipt invocation is one asyncio task.  An action is the   *)
(* code a task runs between two suspension points of the event loop; the   *)
(* outcome of every call into an external collaborator (pool, Postgres,    *)
(* Zerobus REST) is chosen nondeterministically among success and failure. *)
(***************************************************************************)
EXTENDS Integers, Sequences, FiniteSets

\* ---- bounds ----------------------------------------------------------------
NTasks == 3        \* task slots: concurrent callers of get_pool in PoolSpec
MaxWrites == 2     \* write_receipt calls carried through in one run of Spec
MaxCloses == 1     \* times the environment closes the shared pool
MaxBatch == 2      \* receipts handed to one write_batch call
MaxIngest == 3     \* receipts handed to one ingest_batch call
MaxDeliveries == 3 \* records that arrive in the bronze tables in one run
MaxTimeout == 2    \* largest timeout_seconds given to wait_for_active
MaxPollInterval == 2 \* largest poll_interval given to wait_for_active
MaxCardLen == 5    \* characters of a generated card_last4 input
MaxItems == 2      \* line items of a generated payload

Tasks == 1..NTasks
None == 0          \* Python's None for the pool handle

\* ---- inputs ----------------------------------------------------------------
\* POSReceiptEvent values the POS submits: two submissions of T1 that differ
\* in a field (one with a line item, one without) and one unrelated T2.
\* transaction_ts is the hour of the sale.
Receipts ==
    { [transaction_id |-> "T1", transaction_ts |-> 10, total_cents |-> 1000,
       items |-> <<"upc1">>],
      [transaction_id |-> "T1", transaction_ts |-> 10, total_cents |-> 1001,
       items |-> <<>>],
      [transaction_id |-> "T2", transaction_ts |-> 20, total_cents |-> 2000,
       items |-> <<"upc2">>] }

TxnIds == { r.transaction_id : r \in Receipts }

\* A receipt the validator accepts with total_cents = 0 (models.py line 76:
\* ge=0).
ZeroTotalReceipt ==
    [transaction_id |-> "T2", transaction_ts |-> 20, total_cents |-> 0,
     items |-> << >>]

\* Every POSReceiptEvent a caller can hand to write_receipt.
AcceptedReceipts == Receipts \cup { ZeroTotalReceipt }

NoReceipt == [transaction_id |-> "-", transaction_ts |-> 0, total_cents |-> 0,
              items |-> <<>>]
NoRow == [transaction_id |-> "-", transaction_ts |-> 0, total_cents |-> 0]
NoZerobus == [status |-> "pending", error |-> "", event_id |-> 0]
NoOutcome == [kind |-> "none", transaction_id |-> "-", lakebase |-> "pending",
              zerobus |-> NoZerobus, overall_status |-> "", error |-> ""]

VARIABLES
    _pool,                 \* module global: index into pools, or None
    _pool_lock,            \* module global: "None" | "unlocked" | "locked"
    pools,                 \* every AsyncConnectionPool constructed so far
    closes,                \* pool.close() calls made by the environment
    pc,                    \* position of each write_receipt task
    receipt,               \* the task's argument
    pool,                  \* local `pool` of write_receipt (get_pool's result)
    pending,               \* row inserted by the task's open transaction
    lakebase_result,       \* local dict, its "status"
    zerobus_result,        \* local dict, [status, error, event_id]
    outcome,               \* what the call delivered: result or exception
    calls,                 \* per task: calls made into the collaborators, rows
                           \* made durable, and the collaborator that failed
    event_id,              \* local of ingest_receipt
    running,               \* task inside a synchronous (non-awaiting) section
    receipt_transactions,  \* operational table, rows in commit order
    pos_raw_receipts,      \* analytics log, header records
    pos_raw_items,         \* analytics log, item records
    uuids,                 \* uuid4 values handed out
    batch,                 \* the write_batch call: its tasks and its result
    ingest,                \* the ingest_batch call: its input and its summary
    events,                \* raw POS events a caller turns into POSReceiptEvent
    bronze_receipts,       \* giant_eagle.bronze.pos_raw_receipts, arrival order
    bronze_items,          \* giant_eagle.bronze.pos_raw_items, arrival order
    pos_receipts_validated,\* streaming table behind the header quality gate
    pos_items_validated,   \* streaming table behind the item quality gate
    receipts_silver,       \* apply_changes target, headers
    receipt_items_silver,  \* apply_changes target, items
    checkpoint,            \* per streaming table: records read from its source
    receipt_lookup,        \* synced copy of gold.receipt_lookup: transaction_ids
    now,                   \* wall clock (time.time(), NOW()), in hours/seconds
    report,                \* what the reconcile_gaps call delivered
    wait                   \* the wait_for_active call

handlerVars == << _pool, _pool_lock, pools, closes, pc, receipt, pool, pending,
                  lakebase_result, zerobus_result, outcome, calls, event_id,
                  running, receipt_transactions, pos_raw_receipts,
                  pos_raw_items, uuids, batch >>

pipelineVars == << bronze_receipts, bronze_items, pos_receipts_validated,
                   pos_items_validated, receipts_silver, receipt_items_silver,
                   checkpoint >>
syncVars == << receipt_lookup, now, report, wait >>
nonHandlerVars == << ingest, events, pipelineVars, syncVars >>

vars == << handlerVars, nonHandlerVars >>

poolVars == << _pool, _pool_lock, pools >>
storeVars == << receipt_transactions, pending >>
logVars == << pos_raw_receipts, pos_raw_items, uuids, event_id >>
resultVars == << lakebase_result, zerobus_result, outcome >>

\* The handler module after import: no pool, no call made, empty analytics log.
HandlerInit ==
    /\ _pool = None
    /\ _pool_lock = "None"
    /\ pools = << >>
    /\ closes = 0
    /\ pc = [t \in Tasks |-> "idle"]
    /\ receipt = [t \in Tasks |-> NoReceipt]
    /\ pool = [t \in Tasks |-> None]
    /\ pending = [t \in Tasks |-> NoRow]
    /\ lakebase_result = [t \in Tasks |-> "pending"]
    /\ zerobus_result = [t \in Tasks |-> NoZerobus]
    /\ outcome = [t \in Tasks |-> NoOutcome]
    /\ calls = [t \in Tasks |-> [execute |-> 0, commit |-> 0, committed |-> 0, ingest |-> 0,
                                 fault |-> "none", conn |-> FALSE]]
    /\ event_id = [t \in Tasks |-> 0]
    /\ running = None
    /\ pos_raw_receipts = {}
    /\ pos_raw_items = {}
    /\ uuids = 0
    /\ batch = [state |-> "idle", receipts |-> << >>, tasks |-> << >>, result |-> << >>]

\* The tables a Lakeflow pipeline keeps a read position for.
StreamingTables == {"pos_receipts_validated", "pos_items_validated",
                    "receipts_silver", "receipt_items_silver"}

\* A pipeline that has not seen any delivery.
PipelineInit ==
    /\ bronze_receipts = << >>
    /\ bronze_items = << >>
    /\ pos_receipts_validated = << >>
    /\ pos_items_validated = << >>
    /\ receipts_silver = {}
    /\ receipt_items_silver = {}
    /\ checkpoint = [s \in StreamingTables |-> 0]

NoSummary == [ingested |-> 0, failed |-> 0, errors |-> << >>]
NoIngest == [state |-> "idle", receipts |-> << >>, i |-> 0, results |-> NoSummary]
NoEvents == [state |-> "none", input |-> << >>, receipts |-> << >>]
NoReport == [kind |-> "none", gap_count |-> 0, oldest_missing_ts |-> << >>,
             newest_missing_ts |-> << >>, lookback_hours |-> 0,
             recommendation |-> "", error |-> ""]
NoWait == [state |-> "idle", start |-> 0, timeout_seconds |-> 0,
           poll_interval |-> 0, polls |-> 0,
           statuses |-> [s \in {} |-> "UNKNOWN"], result |-> "none"]

\* No utility of sync_to_lakebase.py has been called.
SyncInit ==
    /\ receipt_lookup = {}
    /\ now = 0
    /\ report = NoReport
    /\ wait = NoWait

Init ==
    /\ HandlerInit
    /\ receipt_transactions = << >>
    /\ ingest = NoIngest
    /\ events = NoEvents
    /\ PipelineInit
    /\ SyncInit

\* The k-th smallest element of a set of numbers.
Kth(S, k) == CHOOSE i \in S : Cardinality({ j \in S : j < i }) = k - 1

\* The event loop runs one task at a time; a task that is inside a
\* synchronous call keeps the loop until that call returns.
LoopFree(t) == running = None \/ running = t

\* ---- get_pool ----------------------------------------------------------------
\* Mutant of NewPool: the pool is built with a fixed connection string.
NewPoolDefaultConninfo(conninfo) ==
    [closed |-> TRUE, opened |-> FALSE, open_error |-> FALSE,
     after_closes |-> closes, conninfo |-> "conninfo_a"]

\* Lines 66-72: AsyncConnectionPool(conninfo=conninfo, ..., open=False):
\* constructed closed, never opened.
NewPool(conninfo) ==
    [closed |-> TRUE, opened |-> FALSE, open_error |-> FALSE,
     after_closes |-> closes, conninfo |-> conninfo]

\* Lines 95-100 and 121: the connection string of the handler call t is made
\* through; the first call goes through a handler built with one string, the
\* later calls through handlers built with another.
lakebase_conninfo(t) == IF t = 1 THEN "conninfo_a" ELSE "conninfo_b"

\* Mutant of FastPathHit: the handle's closed flag is not looked at.
FastPathIgnoresClosed == _pool # None

\* Line 54: `_pool is not None and not _pool.closed`.
FastPathHit == _pool # None /\ ~pools[_pool].closed

\* Mutant of NeedsCreate: no second check once the lock is held.
NeedsCreateUnchecked == TRUE

\* Line 64, under the lock: `_pool is None or _pool.closed`.
NeedsCreate == _pool = None \/ pools[_pool].closed

\* Mutant of LakebaseFailed: the except block logs and falls through to the
\* analytics write instead of raising.
LakebaseFailedSwallowed(t, cause) ==
    /\ pc' = [pc EXCEPT ![t] = "zerobus"]
    /\ lakebase_result' = [lakebase_result EXCEPT ![t] = "failed"]
    /\ UNCHANGED << outcome, zerobus_result, logVars, running >>

\* Lines 120-133: any exception of the critical path is re-raised.
LakebaseFailed(t, cause) ==
    /\ pc' = [pc EXCEPT ![t] = "raised"]
    /\ lakebase_result' = [lakebase_result EXCEPT ![t] = "failed"]
    /\ outcome' = [outcome EXCEPT ![t] =
          [kind |-> "RuntimeError", transaction_id |-> receipt[t].transaction_id,
           lakebase |-> "failed", zerobus |-> zerobus_result[t],
           overall_status |-> "", error |-> cause]]
    /\ UNCHANGED << zerobus_result, logVars, running >>

\* Lines 62-76 once the lock is held: recheck, construct, start open().
UnderLock(t) ==
    IF NeedsCreate
    THEN /\ pools' = Append(pools, NewPool(lakebase_conninfo(t)))
         /\ _pool' = Len(pools) + 1
         /\ _pool_lock' = "locked"
         /\ pc' = [pc EXCEPT ![t] = "open"]
         /\ UNCHANGED pool
    ELSE /\ _pool_lock' = "unlocked"
         /\ pool' = [pool EXCEPT ![t] = _pool]
         /\ pc' = [pc EXCEPT ![t] = "connection"]
         /\ UNCHANGED << pools, _pool >>

\* Lines 53-55: fast path, no suspension.
get_pool_fast(t) ==
    /\ pc[t] = "get_pool" /\ LoopFree(t)
    /\ FastPathHit
    /\ pool' = [pool EXCEPT ![t] = _pool]
    /\ pc' = [pc EXCEPT ![t] = "connection"]
    /\ UNCHANGED << poolVars, closes, receipt, storeVars, resultVars, logVars,
                    calls, running, batch >>
    /\ UNCHANGED nonHandlerVars

\* Lines 57-62: create the lock lazily, then take it or wait for it.
get_pool_slow(t) ==
    /\ pc[t] = "get_pool" /\ LoopFree(t)
    /\ ~FastPathHit
    /\ IF _pool_lock = "locked"
       THEN /\ pc' = [pc EXCEPT ![t] = "wait_lock"]
            /\ UNCHANGED << poolVars, pool >>
       ELSE UnderLock(t)
    /\ UNCHANGED << closes, receipt, storeVars, resultVars, logVars, calls,
                    running, batch >>
    /\ UNCHANGED nonHandlerVars

\* Line 62: a waiter is woken when the lock is released.
get_pool_locked(t) ==
    /\ pc[t] = "wait_lock" /\ LoopFree(t)
    /\ _pool_lock = "unlocked"
    /\ UnderLock(t)
    /\ UNCHANGED << closes, receipt, storeVars, resultVars, logVars, calls,
                    running, batch >>
    /\ UNCHANGED nonHandlerVars

\* Lines 73-76: open() returns, the lock is released, the pool is returned.
pool_open_ok(t) ==
    /\ pc[t] = "open" /\ LoopFree(t)
    /\ pools' = [pools EXCEPT ![_pool].closed = FALSE, ![_pool].opened = TRUE]
    /\ _pool_lock' = "unlocked"
    /\ pool' = [pool EXCEPT ![t] = _pool]
    /\ pc' = [pc EXCEPT ![t] = "connection"]
    /\ UNCHANGED << _pool, closes, receipt, storeVars, resultVars, logVars,
                    calls, running, batch >>
    /\ UNCHANGED nonHandlerVars

\* Line 73 raises: the lock is released by `async with`, get_pool raises.
pool_open_fails(t) ==
    /\ pc[t] = "open" /\ LoopFree(t)
    /\ _pool_lock' = "unlocked"
    /\ pools' = [pools EXCEPT ![_pool].open_error = TRUE]
    /\ calls' = [calls EXCEPT ![t].fault = "pool"]
    /\ LakebaseFailed(t, "pool")
    /\ UNCHANGED << _pool, closes, receipt, pool, storeVars, batch >>
    /\ UNCHANGED nonHandlerVars

\* The environment closes the shared pool (AsyncConnectionPool.close()).
pool_close ==
    /\ running = None
    /\ closes < MaxCloses
    /\ _pool # None /\ ~pools[_pool].closed
    /\ pools' = [pools EXCEPT ![_pool].closed = TRUE]
    /\ closes' = closes + 1
    /\ UNCHANGED << _pool, _pool_lock, pc, receipt, pool, storeVars, resultVars,
                    logVars, calls, running, batch >>
    /\ UNCHANGED nonHandlerVars

\* ---- DualWriteHandler.write_receipt: 1. Lakebase write ------------------------
RowOf(r) ==
    [transaction_id |-> r.transaction_id, transaction_ts |-> r.transaction_ts,
     total_cents |-> r.total_cents]

HasRow(table, id) == \E i \in DOMAIN table : table[i].transaction_id = id

\* Mutant of InsertOnConflictDoNothing: the ON CONFLICT clause is missing.
PlainInsert(table, row) == row

\* Lines 199-232: INSERT ... ON CONFLICT (transaction_id) DO NOTHING; the row
\* the statement adds to the open transaction, NoRow when the key exists.
InsertOnConflictDoNothing(table, row) ==
    IF HasRow(table, row.transaction_id) THEN NoRow ELSE row

\* Mutant of Committed: the commit is acknowledged but stores nothing.
CommitStoresNothing(table, row) == table

\* COMMIT makes the open transaction's row durable.
Committed(table, row) == IF row = NoRow THEN table ELSE Append(table, row)

\* Lines 103-117: the call starts; its first await is get_pool (line 121).
\* Tasks are numbered in the order the calls are made.
Start(t, r) ==
    /\ pc[t] = "idle"
    /\ \A u \in Tasks : u < t => pc[u] # "idle"
    /\ r \in AcceptedReceipts

write_receipt(t, r) ==
    /\ running = None
    /\ Start(t, r)
    /\ pc' = [pc EXCEPT ![t] = "get_pool"]
    /\ receipt' = [receipt EXCEPT ![t] = r]
    /\ UNCHANGED << poolVars, closes, pool, storeVars, resultVars, logVars,
                    calls, running, batch >>
    /\ UNCHANGED nonHandlerVars

\* Mutant of ConnectionExit: the connection is not given back.
ConnectionKept(held) == held

\* Lines 122-123: leaving `async with pool.connection()`, by return or by
\* exception, gives the connection back to the pool.
ConnectionExit(held) == FALSE

\* Line 122: `async with pool.connection() as conn` hands out a connection.
pool_connection_ok(t) ==
    /\ pc[t] = "connection" /\ LoopFree(t)
    /\ ~pools[pool[t]].closed
    /\ pc' = [pc EXCEPT ![t] = "execute"]
    /\ calls' = [calls EXCEPT ![t].conn = TRUE]
    /\ UNCHANGED << poolVars, closes, receipt, pool, storeVars, resultVars,
                    logVars, running, batch >>
    /\ UNCHANGED nonHandlerVars

\* Line 122 raises (PoolClosed, PoolTimeout, connection refused).
pool_connection_fails(t) ==
    /\ pc[t] = "connection" /\ LoopFree(t)
    /\ calls' = [calls EXCEPT ![t].fault = "connection"]
    /\ LakebaseFailed(t, "connection")
    /\ UNCHANGED << poolVars, closes, receipt, pool, storeVars, batch >>
    /\ UNCHANGED nonHandlerVars

\* Mutant of cursor_execute_ok: `await conn.commit()` is missing, the call
\* goes on to the analytics write with its transaction still open.
cursor_execute_without_commit(t) ==
    /\ pc[t] = "execute" /\ LoopFree(t)
    /\ \A u \in Tasks \ {t} : pending[u].transaction_id # receipt[t].transaction_id
    /\ pending' = [pending EXCEPT ![t] = RowOf(receipt[t])]
    /\ calls' = [calls EXCEPT ![t].execute = @ + 1]
    /\ lakebase_result' = [lakebase_result EXCEPT ![t] = "success"]
    /\ pc' = [pc EXCEPT ![t] = "zerobus"]
    /\ UNCHANGED << poolVars, closes, receipt, pool, receipt_transactions,
                    zerobus_result, outcome, logVars, running, batch >>
    /\ UNCHANGED nonHandlerVars

\* Lines 196-251: cur.execute(INSERT ...).  Postgres makes the statement wait
\* while another open transaction holds an uncommitted row of the same key.
cursor_execute_ok(t) ==
    /\ pc[t] = "execute" /\ LoopFree(t)
    /\ \A u \in Tasks \ {t} : pending[u].transaction_id # receipt[t].transaction_id
    /\ pending' = [pending EXCEPT ![t] =
          InsertOnConflictDoNothing(receipt_transactions, RowOf(receipt[t]))]
    /\ calls' = [calls EXCEPT ![t].execute = @ + 1]
    /\ pc' = [pc EXCEPT ![t] = "commit"]
    /\ UNCHANGED << poolVars, closes, receipt, pool, receipt_transactions,
                    resultVars, logVars, running, batch >>
    /\ UNCHANGED nonHandlerVars

\* Line 197 raises: the connection context rolls back, line 126 catches.
cursor_execute_fails(t) ==
    /\ pc[t] = "execute" /\ LoopFree(t)
    /\ LakebaseFailed(t, "execute")
    /\ calls' = [calls EXCEPT ![t].execute = @ + 1, ![t].fault = "execute",
                              ![t].conn = ConnectionExit(@)]
    /\ UNCHANGED << poolVars, closes, receipt, pool, storeVars, batch >>
    /\ UNCHANGED nonHandlerVars

\* Line 252: conn.commit() returns; lines 122-125: the connection goes back
\* to the pool and the critical path has succeeded.
conn_commit_ok(t) ==
    /\ pc[t] = "commit" /\ LoopFree(t)
    /\ receipt_transactions' = Committed(receipt_transactions, pending[t])
    /\ pending' = [pending EXCEPT ![t] = NoRow]
    /\ calls' = [calls EXCEPT ![t].commit = @ + 1,
                              ![t].committed = IF pending[t] = NoRow THEN @ ELSE @ + 1,
                              ![t].conn = ConnectionExit(@)]
    /\ lakebase_result' = [lakebase_result EXCEPT ![t] = "success"]
    /\ pc' = [pc EXCEPT ![t] = "zerobus"]
    /\ UNCHANGED << poolVars, closes, receipt, pool, zerobus_result, outcome,
                    logVars, running, batch >>
    /\ UNCHANGED nonHandlerVars

\* Mutant of conn_commit_fails: the commit error is caught and ignored, the
\* call carries on as if the row were stored.
conn_commit_error_ignored(t) ==
    /\ pc[t] = "commit" /\ LoopFree(t)
    /\ \E durable \in BOOLEAN :
          /\ receipt_transactions' =
                IF durable THEN Committed(receipt_transactions, pending[t])
                           ELSE receipt_transactions
          /\ calls' = [calls EXCEPT ![t].commit = @ + 1,
                          ![t].committed = IF durable /\ pending[t] # NoRow THEN @ + 1 ELSE @,
                          ![t].conn = ConnectionExit(@)]
    /\ pending' = [pending EXCEPT ![t] = NoRow]
    /\ lakebase_result' = [lakebase_result EXCEPT ![t] = "success"]
    /\ pc' = [pc EXCEPT ![t] = "zerobus"]
    /\ UNCHANGED << poolVars, closes, receipt, pool, zerobus_result, outcome,
                    logVars, running, batch >>
    /\ UNCHANGED nonHandlerVars

\* Line 252 raises.  The server either aborted the transaction or had made it
\* durable when the acknowledgement was lost: the client cannot tell.
conn_commit_fails(t) ==
    /\ pc[t] = "commit" /\ LoopFree(t)
    /\ \E durable \in BOOLEAN :
          /\ receipt_transactions' =
                IF durable THEN Committed(receipt_transactions, pending[t])
                           ELSE receipt_transactions
          /\ calls' = [calls EXCEPT ![t].commit = @ + 1, ![t].fault = "commit",
                          ![t].committed = IF durable /\ pending[t] # NoRow THEN @ + 1 ELSE @,
                          ![t].conn = ConnectionExit(@)]
    /\ pending' = [pending EXCEPT ![t] = NoRow]
    /\ LakebaseFailed(t, "commit")
    /\ UNCHANGED << poolVars, closes, receipt, pool, batch >>
    /\ UNCHANGED nonHandlerVars

\* ---- DualWriteHandler.write_receipt: 2. Zerobus write -------------------------
\* zerobus_client.py line 73: datetime.isoformat(), the hour as a string.
isoformat(ts) == IF ts = 10 THEN "10:00" ELSE "20:00"

\* zerobus_client.py lines 66-82: the header record built from a receipt;
\* store_id is a required string of the event, one store submits.
ReceiptRecordOf(r, eid) ==
    [event_id |-> eid, transaction_id |-> r.transaction_id, store_id |-> "S1",
     transaction_ts |-> isoformat(r.transaction_ts),
     total_cents |-> r.total_cents]

\* zerobus_client.py lines 85-101: one record per line item, item_seq from 1.
ItemRecordsOf(r, eid) ==
    { [event_id |-> eid, transaction_id |-> r.transaction_id,
       item_seq |-> seq, upc |-> r.items[seq]]
      : seq \in 1..Len(r.items) }

\* The header record of the attempt made by task t.
ReceiptRecord(t, eid) == ReceiptRecordOf(receipt[t], eid)

\* The item records of the attempt made by task t.
ItemRecords(t, eid) == ItemRecordsOf(receipt[t], eid)

\* Mutant of Overall: a failed analytics write is reported as "failed".
OverallFailed(zb) == IF zb.status = "success" THEN "success" ELSE "failed"

\* Lines 152-156.
Overall(zb) == IF zb.status = "success" THEN "success" ELSE "partial"

\* Lines 158-163.
DualWriteResult(t, zb) ==
    [kind |-> "DualWriteResult", transaction_id |-> receipt[t].transaction_id,
     lakebase |-> lakebase_result[t], zerobus |-> zb,
     overall_status |-> Overall(zb), error |-> ""]

\* Lines 137-143 and 152-163: ingest_receipt returned.
ZerobusOk(t, eid) ==
    LET zb == [status |-> "success", error |-> "", event_id |-> eid] IN
    /\ zerobus_result' = [zerobus_result EXCEPT ![t] = zb]
    /\ outcome' = [outcome EXCEPT ![t] = DualWriteResult(t, zb)]
    /\ pc' = [pc EXCEPT ![t] = "returned"]
    /\ running' = None
    /\ UNCHANGED lakebase_result

\* Mutant of ZerobusFailed: the analytics error propagates to the caller.
ZerobusFailedRaises(t, cause) ==
    /\ outcome' = [outcome EXCEPT ![t] =
          [kind |-> "RuntimeError", transaction_id |-> receipt[t].transaction_id,
           lakebase |-> lakebase_result[t], zerobus |-> zerobus_result[t],
           overall_status |-> "", error |-> cause]]
    /\ pc' = [pc EXCEPT ![t] = "raised"]
    /\ running' = None
    /\ UNCHANGED << lakebase_result, zerobus_result >>

\* Mutant of ZerobusFailed: the analytics write is tried again.
ZerobusFailedRetries(t, cause) ==
    /\ pc' = [pc EXCEPT ![t] = "zerobus"]
    /\ running' = None
    /\ UNCHANGED << lakebase_result, zerobus_result, outcome >>

\* Lines 144-163: ingest_receipt raised; the error is recorded, not raised.
ZerobusFailed(t, cause) ==
    LET zb == [status |-> "failed", error |-> cause, event_id |-> 0] IN
    /\ zerobus_result' = [zerobus_result EXCEPT ![t] = zb]
    /\ outcome' = [outcome EXCEPT ![t] = DualWriteResult(t, zb)]
    /\ pc' = [pc EXCEPT ![t] = "returned"]
    /\ running' = None
    /\ UNCHANGED lakebase_result

\* Mutant of uuid4: the generator hands out the previous value again.
uuid4_repeats == IF uuids = 0 THEN 1 ELSE uuids

\* zerobus_client.py line 62: a value no earlier call has received.
uuid4 == uuids + 1

\* Line 137 calls ingest_receipt (a plain call, the event loop is not
\* released): zerobus_client.py lines 62-113, the POST of the header record.
ingest_receipt_header(t) ==
    /\ pc[t] = "zerobus" /\ LoopFree(t)
    /\ uuids' = uuids + 1
    /\ event_id' = [event_id EXCEPT ![t] = uuid4]
    /\ \/ /\ pos_raw_receipts' = pos_raw_receipts \cup {ReceiptRecord(t, uuid4)}
          /\ calls' = [calls EXCEPT ![t].ingest = @ + 1]
          /\ IF receipt[t].items # << >>
             THEN /\ pc' = [pc EXCEPT ![t] = "post_items"]
                  /\ running' = t
                  /\ UNCHANGED resultVars
             ELSE ZerobusOk(t, uuid4)
       \/ /\ UNCHANGED pos_raw_receipts
          /\ calls' = [calls EXCEPT ![t].ingest = @ + 1, ![t].fault = "receipts"]
          /\ ZerobusFailed(t, "receipts")
    /\ UNCHANGED << poolVars, closes, receipt, pool, storeVars, pos_raw_items,
                    batch >>
    /\ UNCHANGED nonHandlerVars

\* zerobus_client.py lines 114-130: the POST of the item records.
ingest_receipt_items(t) ==
    /\ pc[t] = "post_items" /\ LoopFree(t)
    /\ \/ /\ pos_raw_items' = pos_raw_items \cup ItemRecords(t, event_id[t])
          /\ ZerobusOk(t, event_id[t])
          /\ UNCHANGED calls
       \/ /\ UNCHANGED pos_raw_items
          /\ calls' = [calls EXCEPT ![t].fault = "items"]
          /\ ZerobusFailed(t, "items")
    /\ UNCHANGED << poolVars, closes, receipt, pool, storeVars, pos_raw_receipts,
                    uuids, event_id, batch >>
    /\ UNCHANGED nonHandlerVars

\* ---- ZerobusReceiptIngester.ingest_batch ---------------------------------------
\* Mutant of IngestFailed: the error is listed but the receipt is not counted.
IngestFailedUncounted(res, r, cause) ==
    [res EXCEPT !.errors = Append(@, [transaction_id |-> r.transaction_id,
                                      error |-> cause])]

\* zerobus_client.py lines 145-152: the except branch of one iteration.
IngestFailed(res, r, cause) ==
    [res EXCEPT !.failed = @ + 1,
                !.errors = Append(@, [transaction_id |-> r.transaction_id,
                                      error |-> cause])]

\* zerobus_client.py lines 142-144: the try branch of one iteration.
IngestOk(res) == [res EXCEPT !.ingested = @ + 1]

\* Receipt lists handed to ingest_batch.
IngestInputs == UNION { [1..n -> Receipts] : n \in 1..MaxIngest }

\* zerobus_client.py lines 132-139: the call, before the first iteration.
ingest_batch(rs) ==
    /\ ingest.state = "idle"
    /\ ingest' = [state |-> "loop", receipts |-> rs, i |-> 1, results |-> NoSummary]
    /\ UNCHANGED << handlerVars, events, pipelineVars, syncVars >>

\* zerobus_client.py lines 141-152: one iteration, the whole ingest_receipt
\* call (lines 62-130) with the outcome of its two POSTs.
ingest_batch_receipt ==
    LET res == ingest.results
        r == ingest.receipts[ingest.i]
    IN  /\ ingest.state = "loop"
        /\ ingest.i <= Len(ingest.receipts)
        /\ uuids' = uuids + 1
        /\ \/ /\ pos_raw_receipts' = pos_raw_receipts \cup {ReceiptRecordOf(r, uuid4)}
              /\ pos_raw_items' = pos_raw_items \cup ItemRecordsOf(r, uuid4)
              /\ ingest' = [ingest EXCEPT !.i = @ + 1, !.results = IngestOk(res)]
           \/ /\ r.items # << >>
              /\ pos_raw_receipts' = pos_raw_receipts \cup {ReceiptRecordOf(r, uuid4)}
              /\ UNCHANGED pos_raw_items
              /\ ingest' = [ingest EXCEPT !.i = @ + 1,
                                       !.results = IngestFailed(res, r, "items")]
           \/ /\ UNCHANGED << pos_raw_receipts, pos_raw_items >>
              /\ ingest' = [ingest EXCEPT !.i = @ + 1,
                                       !.results = IngestFailed(res, r, "receipts")]
        /\ UNCHANGED << poolVars, closes, pc, receipt, pool, storeVars, resultVars,
                        calls, event_id, running, batch, events, pipelineVars,
                        syncVars >>

\* zerobus_client.py lines 141 and 158: the loop is exhausted, results returned.
ingest_batch_return ==
    /\ ingest.state = "loop"
    /\ ingest.i > Len(ingest.receipts)
    /\ ingest' = [ingest EXCEPT !.state = "returned"]
    /\ UNCHANGED << handlerVars, events, pipelineVars, syncVars >>

\* One ingest_batch call on a fresh log.
IngestNext ==
    \/ \E rs \in IngestInputs : ingest_batch(rs)
    \/ ingest_batch_receipt
    \/ ingest_batch_return

IngestSpec == Init /\ [][IngestNext]_vars

\* ---- bronze quality gate and silver dedup ----------------------------------------
\* SQL NULL in a string column.
NULL == "NULL"

\* Rows that can arrive in giant_eagle.bronze.pos_raw_receipts: three attempts
\* for T1 with growing ingested_ts, a fourth made at the same instant as the
\* third, a zero-total correction, another transaction, and rows that miss a
\* required field or carry a negative total.
BronzeReceiptRows ==
    { [event_id |-> "e1", transaction_id |-> "T1", store_id |-> "S1",
       transaction_ts |-> "10:00", total_cents |-> 1000, ingested_ts |-> 1],
      [event_id |-> "e2", transaction_id |-> "T1", store_id |-> "S1",
       transaction_ts |-> "10:00", total_cents |-> 1001, ingested_ts |-> 2],
      [event_id |-> "e3", transaction_id |-> "T1", store_id |-> "S1",
       transaction_ts |-> "10:00", total_cents |-> 1002, ingested_ts |-> 2],
      [event_id |-> "e4", transaction_id |-> "T1", store_id |-> "S1",
       transaction_ts |-> "10:00", total_cents |-> 0, ingested_ts |-> 3],
      [event_id |-> "e5", transaction_id |-> "T2", store_id |-> "S1",
       transaction_ts |-> "20:00", total_cents |-> 2000, ingested_ts |-> 1],
      [event_id |-> "e6", transaction_id |-> NULL, store_id |-> "S1",
       transaction_ts |-> "10:00", total_cents |-> 1000, ingested_ts |-> 3],
      [event_id |-> "e7", transaction_id |-> "T1", store_id |-> NULL,
       transaction_ts |-> "10:00", total_cents |-> 1000, ingested_ts |-> 3],
      [event_id |-> "e8", transaction_id |-> "T1", store_id |-> "S1",
       transaction_ts |-> NULL, total_cents |-> 1000, ingested_ts |-> 3],
      [event_id |-> "e9", transaction_id |-> "T1", store_id |-> "S1",
       transaction_ts |-> "10:00", total_cents |-> -1, ingested_ts |-> 3] }

\* Rows that can arrive in giant_eagle.bronze.pos_raw_items: attempts for
\* line 1 of T1 (one identified by sku only, one made at the same instant as
\* another), line 2 of T1, and rows the gate has an expectation against.
BronzeItemRows ==
    { [event_id |-> "e1", transaction_id |-> "T1", item_seq |-> 1,
       upc |-> "upc1", sku |-> NULL, quantity |-> 1, extended_cents |-> 500,
       ingested_ts |-> 1],
      [event_id |-> "e2", transaction_id |-> "T1", item_seq |-> 1,
       upc |-> NULL, sku |-> "sku1", quantity |-> 2, extended_cents |-> 900,
       ingested_ts |-> 2],
      [event_id |-> "e3", transaction_id |-> "T1", item_seq |-> 1,
       upc |-> "upc3", sku |-> NULL, quantity |-> 1, extended_cents |-> 0,
       ingested_ts |-> 2],
      [event_id |-> "e1", transaction_id |-> "T1", item_seq |-> 2,
       upc |-> "upc2", sku |-> "sku2", quantity |-> 1, extended_cents |-> 300,
       ingested_ts |-> 1],
      [event_id |-> "e6", transaction_id |-> NULL, item_seq |-> 1,
       upc |-> "upc1", sku |-> NULL, quantity |-> 1, extended_cents |-> 500,
       ingested_ts |-> 3],
      [event_id |-> "e7", transaction_id |-> "T1", item_seq |-> 1,
       upc |-> NULL, sku |-> NULL, quantity |-> 1, extended_cents |-> 500,
       ingested_ts |-> 3],
      [event_id |-> "e8", transaction_id |-> "T1", item_seq |-> 1,
       upc |-> "upc1", sku |-> NULL, quantity |-> 0, extended_cents |-> 0,
       ingested_ts |-> 3],
      [event_id |-> "e9", transaction_id |-> "T1", item_seq |-> 1,
       upc |-> "upc1", sku |-> NULL, quantity |-> 1, extended_cents |-> -1,
       ingested_ts |-> 3] }

\* Mutant of ReceiptExpectations: the expectations only warn.
ReceiptExpectationsWarnOnly(r) == TRUE

\* bronze_receipt_ingest.py lines 46-49: the expect_or_drop constraints of
\* pos_receipts_validated (line 50 only warns).
ReceiptExpectations(r) ==
    /\ r.transaction_id # NULL
    /\ r.store_id # NULL
    /\ r.transaction_ts # NULL
    /\ r.total_cents >= 0

\* bronze_receipt_ingest.py lines 78-81: the expect_or_drop constraints of
\* pos_items_validated (line 82 only warns).
ItemExpectations(r) ==
    /\ r.transaction_id # NULL
    /\ (r.upc # NULL \/ r.sku # NULL)
    /\ r.quantity > 0
    /\ r.extended_cents >= 0

\* bronze_receipt_ingest.py line 63: the header row with its processing time,
\* counted in rows the table has read.
WithBronzeTsReceipt(r, ts) ==
    [event_id |-> r.event_id, transaction_id |-> r.transaction_id,
     store_id |-> r.store_id, transaction_ts |-> r.transaction_ts,
     total_cents |-> r.total_cents, ingested_ts |-> r.ingested_ts,
     _bronze_ts |-> ts]

\* bronze_receipt_ingest.py line 96: the item row with its processing time.
WithBronzeTsItem(r, ts) ==
    [event_id |-> r.event_id, transaction_id |-> r.transaction_id,
     item_seq |-> r.item_seq, upc |-> r.upc, sku |-> r.sku,
     quantity |-> r.quantity, extended_cents |-> r.extended_cents,
     ingested_ts |-> r.ingested_ts, _bronze_ts |-> ts]

\* silver_receipt_transform.py lines 39-41: expect_all_or_drop of the target.
PositiveTotalCents(r) == r.total_cents > 0

\* silver_receipt_transform.py lines 62-64: expect_all_or_drop of the target.
PositiveExtendedCents(r) == r.extended_cents >= 0

\* silver_receipt_transform.py line 47: keys of receipts_silver.
ReceiptKey(r) == << r.transaction_id >>

\* silver_receipt_transform.py line 70: keys of receipt_items_silver.
ItemKey(r) == << r.transaction_id, r.item_seq >>

\* Mutant of SequenceAllows: the row that arrives last always wins.
SequenceIgnored(old, new, tie_replaces) == TRUE

\* silver_receipt_transform.py lines 48 and 71, sequence_by ingested_ts: a
\* change replaces the stored row when its sequence value is greater; which
\* of two changes with the same sequence value is kept is not defined.
SequenceAllows(old, new, tie_replaces) ==
    \/ new.ingested_ts > old.ingested_ts
    \/ new.ingested_ts = old.ingested_ts /\ tie_replaces

\* silver_receipt_transform.py lines 44-50 and 67-73, apply_changes with
\* stored_as_scd_type=1: the change becomes the whole row of its key.
ApplyChanges(target, same_key, new, tie_replaces) ==
    IF same_key = {} THEN target \cup {new}
    ELSE IF \A old \in same_key : SequenceAllows(old, new, tie_replaces)
         THEN (target \ same_key) \cup {new}
         ELSE target

\* Zerobus appends a header row to the bronze table (at-least-once: the same
\* row may arrive again).
deliver_receipt(r) ==
    /\ Len(bronze_receipts) + Len(bronze_items) < MaxDeliveries
    /\ bronze_receipts' = Append(bronze_receipts, r)
    /\ UNCHANGED << bronze_items, pos_receipts_validated, pos_items_validated,
                    receipts_silver, receipt_items_silver, checkpoint >>
    /\ UNCHANGED << handlerVars, ingest, events, syncVars >>

\* Zerobus appends an item row to the bronze table.
deliver_item(r) ==
    /\ Len(bronze_receipts) + Len(bronze_items) < MaxDeliveries
    /\ bronze_items' = Append(bronze_items, r)
    /\ UNCHANGED << bronze_receipts, pos_receipts_validated, pos_items_validated,
                    receipts_silver, receipt_items_silver, checkpoint >>
    /\ UNCHANGED << handlerVars, ingest, events, syncVars >>

\* bronze_receipt_ingest.py lines 37-64: the streaming read takes the next
\* header row through the expectations.
pos_receipts_validated_update ==
    LET at == checkpoint["pos_receipts_validated"] + 1 IN
    /\ at <= Len(bronze_receipts)
    /\ pos_receipts_validated' =
          IF ReceiptExpectations(bronze_receipts[at])
          THEN Append(pos_receipts_validated,
                      WithBronzeTsReceipt(bronze_receipts[at], at))
          ELSE pos_receipts_validated
    /\ checkpoint' = [checkpoint EXCEPT !["pos_receipts_validated"] = at]
    /\ UNCHANGED << bronze_receipts, bronze_items, pos_items_validated,
                    receipts_silver, receipt_items_silver >>
    /\ UNCHANGED << handlerVars, ingest, events, syncVars >>

\* bronze_receipt_ingest.py lines 69-97: the same for the next item row.
pos_items_validated_update ==
    LET at == checkpoint["pos_items_validated"] + 1 IN
    /\ at <= Len(bronze_items)
    /\ pos_items_validated' =
          IF ItemExpectations(bronze_items[at])
          THEN Append(pos_items_validated,
                      WithBronzeTsItem(bronze_items[at], at))
          ELSE pos_items_validated
    /\ checkpoint' = [checkpoint EXCEPT !["pos_items_validated"] = at]
    /\ UNCHANGED << bronze_receipts, bronze_items, pos_receipts_validated,
                    receipts_silver, receipt_items_silver >>
    /\ UNCHANGED << handlerVars, ingest, events, syncVars >>

\* silver_receipt_transform.py lines 31-50: the next validated header is
\* checked against the target's expectation and applied as a change.
receipts_silver_update ==
    LET at == checkpoint["receipts_silver"] + 1 IN
    /\ at <= Len(pos_receipts_validated)
    /\ LET new == pos_receipts_validated[at]
           same_key == { x \in receipts_silver : ReceiptKey(x) = ReceiptKey(new) }
       IN  IF PositiveTotalCents(new)
           THEN \E tie_replaces \in BOOLEAN :
                   receipts_silver' =
                       ApplyChanges(receipts_silver, same_key, new, tie_replaces)
           ELSE UNCHANGED receipts_silver
    /\ checkpoint' = [checkpoint EXCEPT !["receipts_silver"] = at]
    /\ UNCHANGED << bronze_receipts, bronze_items, pos_receipts_validated,
                    pos_items_validated, receipt_items_silver >>
    /\ UNCHANGED << handlerVars, ingest, events, syncVars >>

\* silver_receipt_transform.py lines 55-73: the same for the next item.
receipt_items_silver_update ==
    LET at == checkpoint["receipt_items_silver"] + 1 IN
    /\ at <= Len(pos_items_validated)
    /\ LET new == pos_items_validated[at]
           same_key == { x \in receipt_items_silver : ItemKey(x) = ItemKey(new) }
       IN  IF PositiveExtendedCents(new)
           THEN \E tie_replaces \in BOOLEAN :
                   receipt_items_silver' =
                       ApplyChanges(receipt_items_silver, same_key, new, tie_replaces)
           ELSE UNCHANGED receipt_items_silver
    /\ checkpoint' = [checkpoint EXCEPT !["receipt_items_silver"] = at]
    /\ UNCHANGED << bronze_receipts, bronze_items, pos_receipts_validated,
                    pos_items_validated, receipts_silver >>
    /\ UNCHANGED << handlerVars, ingest, events, syncVars >>

\* Deliveries into the bronze tables and updates of the silver pipeline.
PipelineNext ==
    \/ \E r \in BronzeReceiptRows : deliver_receipt(r)
    \/ \E r \in BronzeItemRows : deliver_item(r)
    \/ pos_receipts_validated_update
    \/ pos_items_validated_update
    \/ receipts_silver_update
    \/ receipt_items_silver_update

PipelineSpec == Init /\ [][PipelineNext]_vars

\* ---- sync_to_lakebase.reconcile_gaps ----------------------------------------------
\* Python's str() of a timestamp, and the None the report carries instead.
str(ts) == << ts >>
NoneTs == << >>

\* Mutant of GapRows: the join keeps the rows that have a match.
GapRowsMatched(rt, rl, lookback_hours) ==
    { i \in DOMAIN rt : /\ rt[i].transaction_ts >= now - lookback_hours
                        /\ rt[i].transaction_id \in rl }

\* sync_to_lakebase.py lines 169-173: receipt_transactions LEFT JOIN
\* receipt_lookup, rows not older than the lookback and without a match.
GapRows(rt, rl, lookback_hours) ==
    { i \in DOMAIN rt : /\ rt[i].transaction_ts >= now - lookback_hours
                        /\ rt[i].transaction_id \notin rl }

\* SQL MIN and MAX over a non-empty set of timestamps.
Min(S) == CHOOSE x \in S : \A y \in S : x <= y
Max(S) == CHOOSE x \in S : \A y \in S : x >= y

\* sync_to_lakebase.py lines 164-191: the aggregate row of gap_query turned
\* into the result dict.
GapReport(rt, rl, lookback_hours) ==
    LET gap == GapRows(rt, rl, lookback_hours)
        stamps == { rt[i].transaction_ts : i \in gap }
    IN  [kind |-> "report",
         gap_count |-> Cardinality(gap),
         oldest_missing_ts |-> IF stamps = {} THEN NoneTs ELSE str(Min(stamps)),
         newest_missing_ts |-> IF stamps = {} THEN NoneTs ELSE str(Max(stamps)),
         lookback_hours |-> lookback_hours,
         recommendation |-> IF Cardinality(gap) > 0 THEN "Gap detected"
                            ELSE "No gap detected",
         error |-> ""]

\* sync_to_lakebase.py lines 152-202: the scan is carried out and returns.
reconcile_gaps(lookback_hours) ==
    /\ report.kind = "none"
    /\ report' = GapReport(receipt_transactions, receipt_lookup, lookback_hours)
    /\ UNCHANGED << handlerVars, ingest, events, pipelineVars, receipt_lookup,
                    now, wait >>

\* What keeps the scan from being carried out: psycopg is not installed
\* (line 155), the connection fails (line 176), the query fails (line 178).
ScanFailures == {"ImportError", "connect", "execute"}

\* sync_to_lakebase.py lines 155-159 and 176-179: the import error is
\* re-raised as RuntimeError, an error of connect or execute is not caught.
reconcile_gaps_raises(lookback_hours, cause) ==
    /\ report.kind = "none"
    /\ report' = [NoReport EXCEPT !.kind = "raised",
                                  !.lookback_hours = lookback_hours,
                                  !.error = cause]
    /\ UNCHANGED << handlerVars, ingest, events, pipelineVars, receipt_lookup,
                    now, wait >>

\* receipt_transactions as the handler can leave it: rows of the submitted
\* receipts, one per transaction_id, in any commit order.
OperationalTables ==
    { << >> }
    \cup { << RowOf(r) >> : r \in Receipts }
    \cup { rt \in { << RowOf(r), RowOf(q) >> : r \in Receipts, q \in Receipts } :
             rt[1].transaction_id # rt[2].transaction_id }

\* The synced copy holds any of the transactions, and possibly one the
\* operational store does not have.
LookupTables == SUBSET (TxnIds \cup {"T9"})

\* Hours at which a scan is made, and the lookbacks it is made with.
ScanTimes == {15, 25, 40}
Lookbacks == {6, 24}

\* Any operational table, any synced copy, any scan time; no scan made yet.
ReconcileInit ==
    /\ HandlerInit
    /\ receipt_transactions \in OperationalTables
    /\ ingest = NoIngest
    /\ events = NoEvents
    /\ PipelineInit
    /\ receipt_lookup \in LookupTables
    /\ now \in ScanTimes
    /\ report = NoReport
    /\ wait = NoWait

\* One reconcile_gaps call.
ReconcileNext ==
    \/ \E h \in Lookbacks : reconcile_gaps(h)
    \/ \E h \in Lookbacks, cause \in ScanFailures : reconcile_gaps_raises(h, cause)

ReconcileSpec == ReconcileInit /\ [][ReconcileNext]_vars

\* ---- sync_to_lakebase.wait_for_active ----------------------------------------------
\* sync_to_lakebase.py lines 40-45.
SYNCED_TABLE_MAP == {"receipt_lookup", "spending_summary", "customer_profiles",
                     "product_catalog"}

\* sync_to_lakebase.py lines 64-86: what one status poll reports for a table;
\* "ERROR" stands for an exception of the status call.
SyncStates == {"ACTIVE", "PROVISIONING", "FAILED", "ERROR"}

\* Mutant of AllActive: one ACTIVE table is enough.
SomeActive(statuses) == \E s \in SYNCED_TABLE_MAP : statuses[s] = "ACTIVE"

\* sync_to_lakebase.py lines 112-114.
AllActive(statuses) ==
    Cardinality({ s \in SYNCED_TABLE_MAP : statuses[s] = "ACTIVE" })
        = Cardinality(SYNCED_TABLE_MAP)

\* sync_to_lakebase.py line 110: the loop condition.
WithinTimeout == now - wait.start < wait.timeout_seconds

\* sync_to_lakebase.py line 124: time.sleep returns once poll_interval
\* seconds have passed, or later.
AfterSleep(overslept) == now + wait.poll_interval + overslept

\* sync_to_lakebase.py lines 107-108: the call, the client is at hand.
wait_for_active(timeout_seconds, poll_interval) ==
    /\ wait.state = "idle"
    /\ wait' = [wait EXCEPT !.state = "loop", !.start = now,
                            !.timeout_seconds = timeout_seconds,
                            !.poll_interval = poll_interval]
    /\ UNCHANGED << handlerVars, ingest, events, pipelineVars, receipt_lookup,
                    now, report >>

\* sync_to_lakebase.py line 108: no client was passed and WorkspaceClient()
\* raises.
wait_for_active_no_client(timeout_seconds, poll_interval) ==
    /\ wait.state = "idle"
    /\ wait' = [wait EXCEPT !.state = "raised", !.start = now,
                            !.timeout_seconds = timeout_seconds,
                            !.poll_interval = poll_interval]
    /\ UNCHANGED << handlerVars, ingest, events, pipelineVars, receipt_lookup,
                    now, report >>

\* sync_to_lakebase.py lines 110-116 with check_sync_status (lines 48-88):
\* one poll; every table reports a state or its status call fails.
check_sync_status ==
    /\ wait.state = "loop"
    /\ WithinTimeout
    /\ \E statuses \in [SYNCED_TABLE_MAP -> SyncStates] :
          wait' = [wait EXCEPT
                     !.polls = @ + 1,
                     !.statuses = statuses,
                     !.state = IF AllActive(statuses) THEN "returned" ELSE "sleep",
                     !.result = IF AllActive(statuses) THEN "True" ELSE @]
    /\ UNCHANGED << handlerVars, ingest, events, pipelineVars, receipt_lookup,
                    now, report >>

\* sync_to_lakebase.py line 124.
time_sleep ==
    /\ wait.state = "sleep"
    /\ \E overslept \in 0..1 : now' = AfterSleep(overslept)
    /\ wait' = [wait EXCEPT !.state = "loop"]
    /\ UNCHANGED << handlerVars, ingest, events, pipelineVars, receipt_lookup,
                    report >>

\* sync_to_lakebase.py lines 110 and 126-127: the loop condition fails.
wait_for_active_timeout ==
    /\ wait.state = "loop"
    /\ ~WithinTimeout
    /\ wait' = [wait EXCEPT !.state = "returned", !.result = "False"]
    /\ UNCHANGED << handlerVars, ingest, events, pipelineVars, receipt_lookup,
                    now, report >>

\* The steps of a wait_for_active call that has started.
WaitStep ==
    \/ check_sync_status
    \/ time_sleep
    \/ wait_for_active_timeout

\* One wait_for_active call.
WaitNext ==
    \/ \E timeout_seconds \in 0..MaxTimeout, poll_interval \in 1..MaxPollInterval :
          wait_for_active(timeout_seconds, poll_interval)
    \/ \E timeout_seconds \in 0..MaxTimeout, poll_interval \in 1..MaxPollInterval :
          wait_for_active_no_client(timeout_seconds, poll_interval)
    \/ WaitStep

\* wait_for_active is a plain function: once called it runs on until it
\* returns or raises.
WaitSpec == Init /\ [][WaitNext]_vars /\ WF_vars(WaitStep)

\* ---- DualWriteHandler.write_batch ---------------------------------------------
Done(t) == pc[t] \in {"returned", "raised"}

\* Mutant of Gather: only the successful results are collected.
GatherSuccessesOnly(ts) ==
    SelectSeq([i \in 1..Len(ts) |-> outcome[ts[i]]],
              LAMBDA o : o.kind = "DualWriteResult")

\* Line 176: gather(..., return_exceptions=True) returns one entry per task,
\* in the order of its arguments.
Gather(ts) == [i \in 1..Len(ts) |-> outcome[ts[i]]]

\* Lines 175-176: one write_receipt task per receipt, all scheduled at once.
write_batch(rs) ==
    /\ running = None
    /\ batch.state = "idle"
    /\ \E first \in Tasks :
          /\ Start(first, rs[1])
          /\ first + Len(rs) - 1 <= NTasks
          /\ pc' = [t \in Tasks |->
                IF t >= first /\ t < first + Len(rs) THEN "get_pool" ELSE pc[t]]
          /\ receipt' = [t \in Tasks |->
                IF t >= first /\ t < first + Len(rs) THEN rs[t - first + 1] ELSE receipt[t]]
          /\ batch' = [state |-> "gathering", receipts |-> rs,
                       tasks |-> [i \in 1..Len(rs) |-> first + i - 1],
                       result |-> << >>]
    /\ UNCHANGED << poolVars, closes, pool, storeVars, resultVars, logVars,
                    calls, running >>
    /\ UNCHANGED nonHandlerVars

\* Line 176: every task has finished, gather returns.
write_batch_return ==
    /\ running = None
    /\ batch.state = "gathering"
    /\ \A i \in DOMAIN batch.tasks : Done(batch.tasks[i])
    /\ batch' = [batch EXCEPT !.state = "returned", !.result = Gather(batch.tasks)]
    /\ UNCHANGED << poolVars, closes, pc, receipt, pool, storeVars, resultVars,
                    logVars, calls, running >>
    /\ UNCHANGED nonHandlerVars

BatchInputs == UNION { [1..n -> Receipts] : n \in 2..MaxBatch }

\* Tasks of the batch that have neither returned nor raised.
InFlight == { batch.tasks[i] : i \in DOMAIN batch.tasks } \ { t \in Tasks : Done(t) }

\* Tasks whose insert waits for the answer to conn.commit() (line 252).
AwaitingCommit == { t \in InFlight : pc[t] = "commit" /\ pending[t] # NoRow }

\* The rows of the tasks in D, appended to the table.
CommittedBy(table, D) ==
    table \o [i \in 1..Cardinality(D) |-> pending[Kth(D, i)]]

\* Line 176 while the caller is cancelled (task.cancel(), or the timeout of
\* an enclosing asyncio.wait_for): gather cancels every child that is not
\* done.  CancelledError is raised in the child at the await it is suspended
\* in; it is a BaseException, so `except Exception` (lines 126, 144) does not
\* catch it.  A commit whose answer was awaited is durable or not; a child
\* holding the pool lock releases it.  The caller gets CancelledError, the
\* list of results is not returned.
write_batch_cancelled ==
    /\ running = None
    /\ batch.state = "gathering"
    /\ InFlight # {}
    /\ \E durable \in SUBSET AwaitingCommit :
          /\ receipt_transactions' = CommittedBy(receipt_transactions, durable)
          /\ calls' = [t \in Tasks |->
                IF t \in InFlight
                THEN [calls[t] EXCEPT !.fault = "cancelled",
                                      !.conn = ConnectionExit(@),
                                      !.committed = IF t \in durable THEN @ + 1 ELSE @]
                ELSE calls[t]]
    /\ pending' = [t \in Tasks |-> IF t \in InFlight THEN NoRow ELSE pending[t]]
    /\ pc' = [t \in Tasks |-> IF t \in InFlight THEN "cancelled" ELSE pc[t]]
    /\ outcome' = [t \in Tasks |->
          IF t \in InFlight
          THEN [kind |-> "CancelledError", transaction_id |-> receipt[t].transaction_id,
                lakebase |-> lakebase_result[t], zerobus |-> zerobus_result[t],
                overall_status |-> "", error |-> "cancelled"]
          ELSE outcome[t]]
    /\ _pool_lock' = IF \E t \in InFlight : pc[t] = "open" THEN "unlocked"
                     ELSE _pool_lock
    /\ batch' = [batch EXCEPT !.state = "cancelled"]
    /\ UNCHANGED << _pool, pools, closes, receipt, pool, lakebase_result,
                    zerobus_result, logVars, running >>
    /\ UNCHANGED nonHandlerVars

\* ---- POSReceiptEvent construction --------------------------------------------------
\* models.py lines 74-75: subtotal_cents / tax_cents left out (None).
NoneCents == -1

\* Raw POS payloads: the three receipts with consistent amounts, one payload
\* without subtotal and tax, and one whose amounts are 920 cents apart.
RawEvents ==
    { [transaction_id |-> "T1", transaction_ts |-> 10, subtotal_cents |-> 900,
       tax_cents |-> 100, total_cents |-> 1000, items |-> <<"upc1">>],
      [transaction_id |-> "T1", transaction_ts |-> 10, subtotal_cents |-> NoneCents,
       tax_cents |-> NoneCents, total_cents |-> 1001, items |-> <<>>],
      [transaction_id |-> "T2", transaction_ts |-> 20, subtotal_cents |-> 1900,
       tax_cents |-> 100, total_cents |-> 2000, items |-> <<"upc2">>],
      [transaction_id |-> "T2", transaction_ts |-> 20, subtotal_cents |-> 1000,
       tax_cents |-> 80, total_cents |-> 2000, items |-> <<"upc2">>] }

\* models.py line 113: abs().
Abs(x) == IF x < 0 THEN -x ELSE x

\* Mutant of validate_total: the tolerance is not checked.
validate_total_skipped(e) == TRUE

\* models.py lines 104-116, validate_total: TRUE when the validator accepts.
validate_total(e) ==
    IF e.subtotal_cents # NoneCents /\ e.tax_cents # NoneCents
    THEN ~(Abs(e.subtotal_cents + e.tax_cents - e.total_cents) > 5)
    ELSE TRUE

\* models.py lines 43-91: the event a valid payload is constructed into.
POSReceiptEvent(e) ==
    [transaction_id |-> e.transaction_id, transaction_ts |-> e.transaction_ts,
     total_cents |-> e.total_cents, items |-> e.items]

\* Payload lists a caller wants written as one batch: any two payloads, and
\* three payloads with a malformed one among them.
EventBatches ==
    [1..2 -> RawEvents]
    \cup { es \in [1..3 -> RawEvents] : \E i \in 1..3 : ~validate_total(es[i]) }

\* write_batch takes list[POSReceiptEvent] (line 167): the caller constructs
\* every event first, and the constructor raises ValidationError for the
\* first payload its validators reject (models.py lines 104-116).
construct_events(es) ==
    /\ events.state = "none"
    /\ events' =
          IF \A i \in DOMAIN es : validate_total(es[i])
          THEN [state |-> "constructed", input |-> es,
                receipts |-> [i \in DOMAIN es |-> POSReceiptEvent(es[i])]]
          ELSE [state |-> "ValidationError", input |-> es, receipts |-> << >>]
    /\ UNCHANGED << handlerVars, ingest, pipelineVars, syncVars >>

\* Lines 165-176: write_batch called with the constructed events.
write_batch_constructed ==
    /\ events.state = "constructed"
    /\ write_batch(events.receipts)

\* ---- models.py: construction of one event ----------------------------------------
\* A card_last4 that is None; strings are sequences of characters.
NoCard == << "None" >>

Digits == {"1", "2", "3", "4", "5"}

\* Characters a generated card_last4 input is made of: digits, the mask, a
\* blank.
CardChars == {"1", "2", "*", " "}

\* Loosely formatted card suffixes: None, the strings the tests use, and
\* every string of at most MaxCardLen characters.
CardInputs ==
    { NoCard, << "*", "*", "*", "*", "4", "5", "3", "2" >>, << "1", "2", "3" >>,
      << "4", "5", "3", "2" >>, << "1", "2", "*", "3", "4", "5" >> }
    \cup UNION { [1..n -> CardChars] : n \in 0..MaxCardLen }

\* str.strip(): leading and trailing blanks removed (models.py line 99).
Strip(s) ==
    LET inked == { i \in DOMAIN s : s[i] # " " } IN
    IF inked = {} THEN << >>
    ELSE SubSeq(s, Kth(inked, 1), Kth(inked, Cardinality(inked)))

IsDigit(c) == c \in Digits

\* Mutant of strip_card_last4: the first four digits are kept.
strip_card_first4(v) ==
    IF v = NoCard THEN NoCard
    ELSE LET digits == SelectSeq(Strip(v), IsDigit) IN
         IF Len(digits) >= 4 THEN SubSeq(digits, 1, 4) ELSE NoCard

\* models.py lines 93-102: the "before" validator of card_last4.
strip_card_last4(v) ==
    IF v = NoCard THEN NoCard
    ELSE LET digits == SelectSeq(Strip(v), IsDigit) IN
         IF Len(digits) >= 4 THEN SubSeq(digits, Len(digits) - 3, Len(digits))
         ELSE NoCard

\* models.py lines 82-88: min_length 4, max_length 4, pattern ^\d{4}$, applied
\* to what the "before" validator returned.
CardLast4Field(c) ==
    c = NoCard \/ (Len(c) = 4 /\ \A i \in 1..4 : IsDigit(c[i]))

\* Python truth value of an Optional[str]: None and "" are false.
Truthy(x) == x # NULL /\ x # ""

\* Mutant of upc_or_sku_required: the validator is missing.
upc_or_sku_not_required(item) == TRUE

\* models.py lines 30-34: TRUE when the validator accepts.
upc_or_sku_required(item) == ~(~Truthy(item.upc) /\ ~Truthy(item.sku))

\* models.py lines 25-27: quantity ge=0, extended_cents ge=0.
LineItemFields(item) == item.quantity >= 0 /\ item.extended_cents >= 0

\* POSLineItem(...) returns instead of raising ValidationError.
POSLineItemConstructs(item) == LineItemFields(item) /\ upc_or_sku_required(item)

\* models.py lines 74-76: subtotal_cents, tax_cents, total_cents ge=0.
ReceiptFields(e) == e.total_cents >= 0

\* POSReceiptEvent(...) returns instead of raising ValidationError: every
\* field validates, every item constructs, the model validator accepts.
POSReceiptEventConstructs(e) ==
    /\ ReceiptFields(e)
    /\ CardLast4Field(strip_card_last4(e.card_last4))
    /\ \A i \in DOMAIN e.items : POSLineItemConstructs(e.items[i])
    /\ validate_total(e)

\* The constructed event: the payload with its card_last4 normalized.
POSReceiptEventOf(e) == [e EXCEPT !.card_last4 = strip_card_last4(@)]

\* Line item payloads.
ItemPayloads ==
    [upc : {NULL, "", "upc1"}, sku : {NULL, "", "sku1"}, quantity : {-1, 0, 1},
     extended_cents : {100}]

\* Payloads handed to POSReceiptEvent(...): amounts around the tolerance,
\* card suffixes, and item lists.
Payloads ==
    [transaction_id : {"T1"}, transaction_ts : {10},
     subtotal_cents : {NoneCents, 1000, 1757}, tax_cents : {NoneCents, 80, 105},
     total_cents : {-1, 0, 1074, 1075, 1080, 1083, 1085, 1086, 1862, 2000},
     card_last4 : {NoCard}, items : { << >> }]
    \cup [transaction_id : {"T1"}, transaction_ts : {10},
          subtotal_cents : {NoneCents}, tax_cents : {NoneCents},
          total_cents : {500}, card_last4 : CardInputs, items : { << >> }]
    \cup [transaction_id : {"T1"}, transaction_ts : {10},
          subtotal_cents : {NoneCents}, tax_cents : {NoneCents},
          total_cents : {0, 500}, card_last4 : {NoCard},
          items : UNION { [1..n -> ItemPayloads] : n \in 1..MaxItems }]

\* A caller about to construct one event from a payload.
ModelsInit ==
    /\ HandlerInit
    /\ receipt_transactions = << >>
    /\ ingest = NoIngest
    /\ PipelineInit
    /\ SyncInit
    /\ \E e \in Payloads :
          events = [state |-> "none", input |-> << e >>, receipts |-> << >>]

\* POSReceiptEvent(**payload): the event, or ValidationError.
POSReceiptEvent_init ==
    /\ events.state = "none"
    /\ events' =
          IF POSReceiptEventConstructs(events.input[1])
          THEN [events EXCEPT !.state = "constructed",
                              !.receipts = << POSReceiptEventOf(events.input[1]) >>]
          ELSE [events EXCEPT !.state = "ValidationError"]
    /\ UNCHANGED << handlerVars, ingest, pipelineVars, syncVars >>

ModelsNext == POSReceiptEvent_init

ModelsSpec == ModelsInit /\ [][ModelsNext]_vars

\* One step of a write_receipt task, or of the pool's environment.
TaskStep ==
    \/ \E t \in Tasks : get_pool_fast(t)
    \/ \E t \in Tasks : get_pool_slow(t)
    \/ \E t \in Tasks : get_pool_locked(t)
    \/ \E t \in Tasks : pool_open_ok(t)
    \/ \E t \in Tasks : pool_open_fails(t)
    \/ pool_close
    \/ \E t \in Tasks : pool_connection_ok(t)
    \/ \E t \in Tasks : pool_connection_fails(t)
    \/ \E t \in Tasks : cursor_execute_ok(t)
    \/ \E t \in Tasks : cursor_execute_fails(t)
    \/ \E t \in Tasks : conn_commit_ok(t)
    \/ \E t \in Tasks : conn_commit_fails(t)
    \/ \E t \in Tasks : ingest_receipt_header(t)
    \/ \E t \in Tasks : ingest_receipt_items(t)

\* Independent write_receipt calls, made at any time.
Next ==
    \/ \E t \in 1..MaxWrites, r \in Receipts : write_receipt(t, r)
    \/ TaskStep

Spec == Init /\ [][Next]_vars

\* One write_batch call.
BatchNext ==
    \/ \E rs \in BatchInputs : write_batch(rs)
    \/ write_batch_return
    \/ TaskStep

BatchSpec == Init /\ [][BatchNext]_vars

\* One write_batch call that its caller may cancel.
CancelNext ==
    \/ BatchNext
    \/ write_batch_cancelled

CancelSpec == Init /\ [][CancelNext]_vars

\* One batch of raw payloads: construction, then write_batch.
EventBatchNext ==
    \/ \E es \in EventBatches : construct_events(es)
    \/ write_batch_constructed
    \/ write_batch_return
    \/ TaskStep

EventBatchSpec == Init /\ [][EventBatchNext]_vars

\* ---- write_receipt, the pipelines and the gap scan together ----------------------
\* Receipts submitted in FlowSpec: T1 with a line item, and a zero-total T2.
FlowReceipts ==
    { r \in Receipts : r.items # << >> /\ r.transaction_id = "T1" }
    \cup { ZeroTotalReceipt }

\* The transaction_ids the synced receipt_lookup holds once every table of
\* the pipelines has processed the header records of the log: a header is
\* kept by pos_receipts_validated (bronze_receipt_ingest.py lines 46-49) and
\* by receipts_silver (silver_receipt_transform.py lines 39-50); the join of
\* receipt_lookup_silver is a left join (lines 132-136), so the items play no
\* part; gold receipt_lookup selects every row (gold_receipt_insights.py
\* lines 66-137).
LookupOf(log) ==
    { h.transaction_id :
        h \in { x \in log : ReceiptExpectations(x) /\ PositiveTotalCents(x) } }

\* The pipelines run until they have processed every delivered record, and
\* the synced table follows.
pipeline_refresh ==
    /\ running = None
    /\ receipt_lookup # LookupOf(pos_raw_receipts)
    /\ receipt_lookup' = LookupOf(pos_raw_receipts)
    /\ UNCHANGED << handlerVars, ingest, events, pipelineVars, now, report, wait >>

\* The wall clock moves on to a later scan time.
clock_advances ==
    /\ running = None
    /\ \E h \in ScanTimes : h > now /\ now' = h
    /\ UNCHANGED << handlerVars, ingest, events, pipelineVars, receipt_lookup,
                    report, wait >>

\* write_receipt calls, the pipelines behind the log, and one gap scan.
FlowNext ==
    \/ \E t \in 1..MaxWrites, r \in FlowReceipts : write_receipt(t, r)
    \/ TaskStep
    \/ pipeline_refresh
    \/ clock_advances
    \/ \E h \in Lookbacks : running = None /\ reconcile_gaps(h)

FlowSpec == Init /\ [][FlowNext]_vars

\* get_pool alone: every task slot is a write_receipt call followed up to the
\* point where get_pool has returned or raised (line 121).
PoolNext ==
    \/ \E t \in Tasks, r \in Receipts : write_receipt(t, r)
    \/ \E t \in Tasks : get_pool_fast(t)
    \/ \E t \in Tasks : get_pool_slow(t)
    \/ \E t \in Tasks : get_pool_locked(t)
    \/ \E t \in Tasks : pool_open_ok(t)
    \/ \E t \in Tasks : pool_open_fails(t)
    \/ pool_close

PoolSpec == Init /\ [][PoolNext]_vars

\* ---- properties ---------------------------------------------------------------
LakebaseFaults == {"pool", "connection", "execute", "commit"}
ZerobusFaults == {"receipts", "items"}

Rows(id) == { i \in DOMAIN receipt_transactions :
                receipt_transactions[i].transaction_id = id }

\* C1: a call's analytics delivery (ingest_receipt) starts only after the
\* call's insert was executed and its commit returned successfully; it never
\* starts before or during the operational write.
C1_AnalyticsAfterCommit ==
    \A t \in Tasks :
        (calls[t].ingest > 0 \/ pc[t] \in {"zerobus", "post_items"}) =>
            /\ pc[t] \in {"zerobus", "post_items", "returned"}
            /\ calls[t].execute = 1
            /\ calls[t].commit = 1
            /\ calls[t].fault \notin LakebaseFaults
            /\ lakebase_result[t] = "success"
            /\ pending[t] = NoRow
            /\ Rows(receipt[t].transaction_id) # {}

C1_Witness ==
    \E t \in Tasks : pc[t] = "post_items" /\ calls[t].ingest = 1

\* C2: when a step of the operational write fails (pool, connection, execute
\* or commit), the call raises RuntimeError and never calls ingest_receipt.
C2_LakebaseFailureRaises ==
    \A t \in Tasks :
        calls[t].fault \in LakebaseFaults =>
            /\ pc[t] = "raised"
            /\ outcome[t].kind = "RuntimeError"
            /\ outcome[t].error = calls[t].fault
            /\ calls[t].ingest = 0
            /\ event_id[t] = 0
            /\ zerobus_result[t] = NoZerobus

C2_Witness ==
    \E t, u \in Tasks :
        /\ calls[t].fault = "pool" /\ pc[t] = "raised"
        /\ calls[u].fault = "commit" /\ pc[u] = "raised"

Headers(id) == { h \in pos_raw_receipts : h.transaction_id = id }

\* The analytics log holds everything ingest_receipt sends for task t's call.
Delivered(t) ==
    /\ ReceiptRecord(t, event_id[t]) \in pos_raw_receipts
    /\ ItemRecords(t, event_id[t]) \subseteq pos_raw_items

\* C3: when the operational write succeeded and the analytics delivery raises,
\* the call returns (does not raise) a result with overall_status "partial",
\* lakebase "success", zerobus "failed" with the error, and the insert was
\* executed exactly once.
C3_ZerobusFailureGivesPartial ==
    \A t \in Tasks :
        calls[t].fault \in ZerobusFaults =>
            /\ pc[t] = "returned"
            /\ outcome[t].kind = "DualWriteResult"
            /\ outcome[t].overall_status = "partial"
            /\ outcome[t].lakebase = "success"
            /\ outcome[t].zerobus.status = "failed"
            /\ outcome[t].zerobus.error = calls[t].fault
            /\ calls[t].execute = 1

C3_Witness ==
    \E t \in Tasks :
        /\ calls[t].fault = "items" /\ pc[t] = "returned"
        /\ ReceiptRecord(t, event_id[t]) \in pos_raw_receipts

\* C4: a finished call is an exception (the operational write failed), a result
\* with overall_status "success" (exactly when the analytics delivery
\* succeeded) or a result with overall_status "partial" (exactly when it
\* failed); a result never carries "failed", a "pending" sub-status or a
\* lakebase status other than "success".
C4_TerminalOutcomes ==
    \A t \in Tasks :
        /\ ~Done(t) => outcome[t] = NoOutcome
        /\ Done(t) =>
            \/ /\ pc[t] = "raised"
               /\ outcome[t].kind = "RuntimeError"
               /\ calls[t].fault \in LakebaseFaults
            \/ /\ pc[t] = "returned"
               /\ outcome[t].kind = "DualWriteResult"
               /\ outcome[t].lakebase = "success"
               /\ \/ /\ outcome[t].overall_status = "success"
                     /\ outcome[t].zerobus.status = "success"
                     /\ calls[t].fault = "none"
                     /\ Delivered(t)
                  \/ /\ outcome[t].overall_status = "partial"
                     /\ outcome[t].zerobus.status = "failed"
                     /\ calls[t].fault \in ZerobusFaults
                     /\ ~Delivered(t)

C4_Witness ==
    \E t, u \in Tasks :
        /\ pc[t] = "returned" /\ outcome[t].overall_status = "success"
        /\ pc[u] = "returned" /\ outcome[u].overall_status = "partial"

\* The calls that submitted transaction id.
Submissions(id) == { t \in Tasks : receipt[t].transaction_id = id }

\* C5: when a transaction_id was submitted k >= 1 times and every submission
\* succeeded on both paths, the operational table holds exactly one row for
\* it, the INSERT was executed once per submission and k header deliveries
\* are in the analytics log; the table never holds two rows of one key.

C6_CallerViewMatchesStore ==
    \A t \in Tasks :
        /\ pc[t] = "returned" => Rows(receipt[t].transaction_id) # {}
        /\ pc[t] = "raised" => calls[t].committed = 0

\* C6 amended: a returned result means the row is committed; a call that
\* raises because get_pool, pool.connection() or execute failed issued no
\* commit and committed no row.  (A call that raises because commit() raised
\* may have made the row durable.)
C6_CallerViewAmended ==
    \A t \in Tasks :
        /\ pc[t] = "returned" => Rows(receipt[t].transaction_id) # {}
        /\ (pc[t] = "raised" /\ calls[t].fault # "commit") =>
              calls[t].committed = 0 /\ calls[t].commit = 0

C6_Witness ==
    \E t, u \in Tasks :
        /\ pc[t] = "returned" /\ calls[t].committed = 1
        /\ pc[u] = "raised" /\ calls[u].fault = "execute"
        /\ Rows(receipt[u].transaction_id) = {}

\* C10: within one call the insert is attempted at most once and the
\* analytics delivery at most once, whichever of them fails.
C10_NoRetries ==
    \A t \in Tasks :
        /\ calls[t].execute <= 1
        /\ calls[t].commit <= 1
        /\ calls[t].ingest <= 1
        /\ calls[t].fault # "none" => Done(t)

C10_Witness ==
    \E t, u \in Tasks :
        /\ calls[t].fault = "execute" /\ calls[t].execute = 1
        /\ calls[u].fault = "receipts" /\ calls[u].ingest = 1

\* What a call must deliver given only the faults of its own collaborators.
OwnOutcomeKind(t) ==
    IF calls[t].fault \in LakebaseFaults THEN "RuntimeError" ELSE "DualWriteResult"

OwnOverall(t) ==
    IF calls[t].fault \in LakebaseFaults THEN ""
    ELSE IF calls[t].fault \in ZerobusFaults THEN "partial" ELSE "success"

\* C7: write_batch over n receipts returns n entries, entry i being the
\* result or the exception of receipts[i]; every task ran to its end, and
\* each entry is decided by the faults of its own write alone.
C7_BatchAligned ==
    batch.state = "returned" =>
        /\ Len(batch.result) = Len(batch.receipts)
        /\ \A i \in 1..Len(batch.receipts) :
              LET t == batch.tasks[i] IN
              /\ Done(t)
              /\ receipt[t] = batch.receipts[i]
              /\ batch.result[i] = outcome[t]
              /\ batch.result[i].transaction_id = batch.receipts[i].transaction_id
              /\ batch.result[i].kind = OwnOutcomeKind(t)
              /\ batch.result[i].overall_status = OwnOverall(t)

C7_Witness ==
    /\ batch.state = "returned"
    /\ Len(batch.result) = 2
    /\ batch.result[1].kind = "RuntimeError"
    /\ batch.result[1].transaction_id = "T1"
    /\ batch.result[2].kind = "DualWriteResult"
    /\ batch.result[2].overall_status = "success"
    /\ batch.result[2].transaction_id = "T2"

\* Pools that were constructed after e closes and whose open() did not fail.
PoolsOfEpoch(e) ==
    { p \in DOMAIN pools : pools[p].after_closes = e /\ ~pools[p].open_error }

\* Tasks whose get_pool call has returned.
GotPool == { t \in Tasks : pool[t] # None }

\* C8: while no pool was ever closed, racing get_pool callers construct one
\* pool only (one more for every open() that raised), at most one pool is
\* ever opened, and every caller that returns gets that pool.
C8_OnePoolForRacingCallers ==
    closes = 0 =>
        /\ Cardinality(PoolsOfEpoch(0)) <= 1
        /\ Cardinality({ p \in DOMAIN pools : pools[p].opened }) <= 1
        /\ \A t \in GotPool :
              /\ pool[t] = _pool
              /\ pools[pool[t]].opened /\ ~pools[pool[t]].closed
        /\ \A t, u \in GotPool : pool[t] = pool[u]

C8_Witness ==
    /\ closes = 0
    /\ Len(pools) = 1
    /\ GotPool = Tasks
    /\ \A t \in Tasks : pool[t] = 1

\* A get_pool call that returns in this step returns the current pool, open,
\* and constructed after the latest close.
C9_ReturnsOpenPool ==
    \A t \in Tasks :
        (pool[t] = None /\ pool'[t] # None) =>
            /\ pool'[t] = _pool'
            /\ ~pools'[pool'[t]].closed
            /\ pools'[pool'[t]].after_closes = closes'

\* After each close at most one pool is constructed whose open() succeeds.
C9_OneReplacement ==
    \A e \in 0..closes : Cardinality(PoolsOfEpoch(e)) <= 1

\* C9: get_pool never returns a handle that is closed when it returns: after
\* a close the callers construct exactly one replacement pool (one more for
\* every open() that raised) and all of them get it.

C9_ClosedPoolIsReplaced == [][C9_ReturnsOpenPool]_vars /\ []C9_OneReplacement

C9_Witness ==
    /\ closes = 1
    /\ \E t, u \in Tasks :
          /\ t # u
          /\ pool[t] = pool[u] /\ pool[t] # None
          /\ pools[pool[t]].after_closes = 1
          /\ ~pools[pool[t]].closed
    /\ \E v \in Tasks : pool[v] # None /\ pools[pool[v]].closed

\* Tasks whose ingest_receipt call has drawn its event_id.
Attempts == { t \in Tasks : calls[t].ingest > 0 }

\* C11: two records of the analytics log carry the same event_id exactly
\* when the same ingest_receipt call produced them: every header and item
\* record is the record of one attempt and carries that attempt's event_id,
\* the items of an attempt lie under the event_id of its header, different
\* attempts have different event_ids, and a retry of a transaction_id keeps
\* the transaction_id under a fresh event_id.
C11_EventIdPerAttempt ==
    /\ \A t, u \in Attempts : t # u => event_id[t] # event_id[u]
    /\ \A h \in pos_raw_receipts :
          \E t \in Attempts : h = ReceiptRecord(t, event_id[t])
    /\ \A i \in pos_raw_items :
          \E t \in Attempts : /\ i \in ItemRecords(t, event_id[t])
                               /\ ReceiptRecord(t, event_id[t]) \in pos_raw_receipts
    /\ \A h, g \in pos_raw_receipts :
          h # g /\ h.transaction_id = g.transaction_id => h.event_id # g.event_id

\* A transaction delivered with its item, and delivered again by a retry.
C11_Witness ==
    \E t, u \in Attempts :
        /\ t # u
        /\ receipt[t].transaction_id = receipt[u].transaction_id
        /\ ReceiptRecord(t, event_id[t]) \in pos_raw_receipts
        /\ ReceiptRecord(u, event_id[u]) \in pos_raw_receipts
        /\ ItemRecords(t, event_id[t]) # {}
        /\ ItemRecords(t, event_id[t]) \subseteq pos_raw_items

\* Positions of the ingest_batch input whose ingest_receipt call raised: the
\* call at position i drew event_id i and left its header or an item out.
FailedPositions ==
    { i \in 1..Len(ingest.receipts) :
        \/ ReceiptRecordOf(ingest.receipts[i], i) \notin pos_raw_receipts
        \/ ~(ItemRecordsOf(ingest.receipts[i], i) \subseteq pos_raw_items) }

\* C12: ingest_batch never raises for a per-receipt failure; when it returns
\* it has called ingest_receipt once for every receipt of its input,
\* ingested + failed is the number of receipts, ingested counts the receipts
\* that were delivered, and errors lists the transaction_id of every failed
\* receipt, one entry each, in input order.
C12_IngestBatchSummary ==
    /\ ingest.state # "raised"
    /\ ingest.state = "returned" =>
          LET res == ingest.results
              n == Len(ingest.receipts)
          IN  /\ uuids = n
              /\ res.ingested + res.failed = n
              /\ res.failed = Cardinality(FailedPositions)
              /\ Len(res.errors) = res.failed
              /\ \A k \in 1..Len(res.errors) :
                    res.errors[k].transaction_id =
                        ingest.receipts[Kth(FailedPositions, k)].transaction_id

\* A batch whose first receipt failed, whose second was delivered and whose
\* third failed again.
C12_Witness ==
    /\ ingest.state = "returned"
    /\ FailedPositions = {1, 3}
    /\ ingest.results.ingested = 1

\* The rows of a streaming table.
Range(table) == { table[i] : i \in DOMAIN table }

\* Every streaming table has read all of its source.
Quiescent ==
    /\ checkpoint["pos_receipts_validated"] = Len(bronze_receipts)
    /\ checkpoint["pos_items_validated"] = Len(bronze_items)
    /\ checkpoint["receipts_silver"] = Len(pos_receipts_validated)
    /\ checkpoint["receipt_items_silver"] = Len(pos_items_validated)

\* C13: once the dedup stage has processed the validated deliveries, every
\* key with a validated delivery has exactly one row in its silver table, the
\* row is one of the validated records, whole, and no validated record of the
\* key has a greater ingested_ts.
C13_LatestDeliveryPerKey ==
    Quiescent =>
        /\ receipts_silver \subseteq Range(pos_receipts_validated)
        /\ \A v \in Range(pos_receipts_validated) :
              LET rows == { x \in receipts_silver : ReceiptKey(x) = ReceiptKey(v) }
              IN  /\ Cardinality(rows) = 1
                  /\ \A x \in rows : x.ingested_ts >= v.ingested_ts
        /\ receipt_items_silver \subseteq Range(pos_items_validated)
        /\ \A v \in Range(pos_items_validated) :
              LET rows == { x \in receipt_items_silver : ItemKey(x) = ItemKey(v) }
              IN  /\ Cardinality(rows) = 1
                  /\ \A x \in rows : x.ingested_ts >= v.ingested_ts

\* The delivered columns of a header row: all but the processing time.
DeliveredReceipt(x) ==
    [event_id |-> x.event_id, transaction_id |-> x.transaction_id,
     store_id |-> x.store_id, transaction_ts |-> x.transaction_ts,
     total_cents |-> x.total_cents, ingested_ts |-> x.ingested_ts]

\* The delivered columns of an item row.
DeliveredItem(x) ==
    [event_id |-> x.event_id, transaction_id |-> x.transaction_id,
     item_seq |-> x.item_seq, upc |-> x.upc, sku |-> x.sku,
     quantity |-> x.quantity, extended_cents |-> x.extended_cents,
     ingested_ts |-> x.ingested_ts]

\* Delivered header and item records that reached the dedup stage.
ValidatedReceipts == { DeliveredReceipt(v) : v \in Range(pos_receipts_validated) }
ValidatedItems == { DeliveredItem(v) : v \in Range(pos_items_validated) }

\* No two different delivered records of one key carry the same ingested_ts.
DistinctSequenceValues ==
    /\ \A p, q \in ValidatedReceipts :
          p # q /\ ReceiptKey(p) = ReceiptKey(q) => p.ingested_ts # q.ingested_ts
    /\ \A p, q \in ValidatedItems :
          p # q /\ ItemKey(p) = ItemKey(q) => p.ingested_ts # q.ingested_ts

\* The step applies the validated header `new` to receipts_silver.
AppliesReceipt(new) ==
    /\ checkpoint'["receipts_silver"] = checkpoint["receipts_silver"] + 1
    /\ new = pos_receipts_validated[checkpoint'["receipts_silver"]]

\* The step applies the validated item `new` to receipt_items_silver.
AppliesItem(new) ==
    /\ checkpoint'["receipt_items_silver"] = checkpoint["receipt_items_silver"] + 1
    /\ new = pos_items_validated[checkpoint'["receipt_items_silver"]]

\* Delivered records the dedup stage has already processed.
ProcessedReceipts ==
    { DeliveredReceipt(pos_receipts_validated[i]) :
        i \in 1..checkpoint["receipts_silver"] }
ProcessedItems ==
    { DeliveredItem(pos_items_validated[i]) :
        i \in 1..checkpoint["receipt_items_silver"] }

\* Applying a record that was processed before leaves the delivered columns
\* of the table as they are.
RedeliveryChangesNothing ==
    /\ \A new \in Range(pos_receipts_validated) :
          AppliesReceipt(new) /\ DeliveredReceipt(new) \in ProcessedReceipts
          => { DeliveredReceipt(x) : x \in receipts_silver' }
               = { DeliveredReceipt(x) : x \in receipts_silver }
    /\ \A new \in Range(pos_items_validated) :
          AppliesItem(new) /\ DeliveredItem(new) \in ProcessedItems
          => { DeliveredItem(x) : x \in receipt_items_silver' }
               = { DeliveredItem(x) : x \in receipt_items_silver }

\* A record that arrives after a record of its key with a greater
\* ingested_ts does not replace it.
LateRecordDoesNotReplace ==
    /\ \A new \in Range(pos_receipts_validated) :
          /\ AppliesReceipt(new)
          /\ \E x \in receipts_silver :
                ReceiptKey(x) = ReceiptKey(new) /\ x.ingested_ts > new.ingested_ts
          => receipts_silver' = receipts_silver
    /\ \A new \in Range(pos_items_validated) :
          /\ AppliesItem(new)
          /\ \E x \in receipt_items_silver :
                ItemKey(x) = ItemKey(new) /\ x.ingested_ts > new.ingested_ts
          => receipt_items_silver' = receipt_items_silver

\* The records of S no other record of the same key is as new as.
LatestWins(S, Key(_)) ==
    { r \in S : \A q \in S : Key(q) = Key(r) /\ q # r => q.ingested_ts < r.ingested_ts }

\* Once everything is processed the delivered columns of the deduplicated
\* tables are a function of the set of delivered records that satisfy the
\* tables' expectations.
TablesFollowFromDeliveredSet ==
    Quiescent =>
        /\ { DeliveredReceipt(x) : x \in receipts_silver }
             = LatestWins({ r \in ValidatedReceipts : PositiveTotalCents(r) }, ReceiptKey)
        /\ { DeliveredItem(x) : x \in receipt_items_silver }
             = LatestWins({ r \in ValidatedItems : PositiveExtendedCents(r) }, ItemKey)

\* C14 as stated: in every step of the dedup stage, applying an already
\* processed record leaves the deduplicated tables unchanged, and a record
\* older than the stored row of its key does not replace it.
C14_OrderAndMultiplicityIrrelevant ==
    [][RedeliveryChangesNothing /\ LateRecordDoesNotReplace]_vars

\* C14 amended: as long as different delivered records of one key carry
\* different ingested_ts, applying an already processed record leaves the
\* tables unchanged, an older record never replaces a newer row, and the
\* tables follow from the set of delivered records alone.
C14_OrderIrrelevantForDistinctTimestamps ==
    /\ [][(DistinctSequenceValues => RedeliveryChangesNothing)
            /\ LateRecordDoesNotReplace]_vars
    /\ [](DistinctSequenceValues => TablesFollowFromDeliveredSet)

\* The dedup stage has processed a delivery twice and a late record older
\* than the row of its key, and a row is stored.
C14_Witness ==
    /\ Quiescent /\ DistinctSequenceValues
    /\ receipts_silver # {}
    /\ \E i, j \in DOMAIN pos_receipts_validated :
          /\ i < j
          /\ ReceiptKey(pos_receipts_validated[i]) = ReceiptKey(pos_receipts_validated[j])
          /\ pos_receipts_validated[j].ingested_ts < pos_receipts_validated[i].ingested_ts
    /\ \E i, j \in DOMAIN pos_receipts_validated :
          /\ i < j
          /\ DeliveredReceipt(pos_receipts_validated[i])
               = DeliveredReceipt(pos_receipts_validated[j])

\* Bronze rows the quality gate has read so far.
GateReadReceipts == 1..checkpoint["pos_receipts_validated"]
GateReadItems == 1..checkpoint["pos_items_validated"]

\* C19: no header with a null transaction_id, store_id or transaction_ts and
\* no item with a null transaction_id or with neither upc nor sku is in a
\* validated or deduplicated table, and every row the gate has read that
\* satisfies the expectations is in the validated table, whatever was
\* dropped before it.
C19_GateDropsAndContinues ==
    /\ \A x \in Range(pos_receipts_validated) \cup receipts_silver :
          x.transaction_id # NULL /\ x.store_id # NULL /\ x.transaction_ts # NULL
    /\ \A x \in Range(pos_items_validated) \cup receipt_items_silver :
          x.transaction_id # NULL /\ ~(x.upc = NULL /\ x.sku = NULL)
    /\ \A i \in GateReadReceipts :
          ReceiptExpectations(bronze_receipts[i])
          => WithBronzeTsReceipt(bronze_receipts[i], i) \in Range(pos_receipts_validated)
    /\ \A i \in GateReadItems :
          ItemExpectations(bronze_items[i])
          => WithBronzeTsItem(bronze_items[i], i) \in Range(pos_items_validated)

\* A header without transaction_id was dropped and the header delivered
\* after it reached the dedup stage; an item without upc and sku was dropped.
C19_Witness ==
    /\ Quiescent
    /\ Len(bronze_receipts) = 2
    /\ bronze_receipts[1].transaction_id = NULL
    /\ Len(pos_receipts_validated) = 1
    /\ receipts_silver # {}
    /\ Len(bronze_items) = 1
    /\ bronze_items[1].upc = NULL /\ bronze_items[1].sku = NULL
    /\ pos_items_validated = << >>

\* Transactions of the operational store that are not older than the
\* lookback of the report and have no row in the synced analytics copy.
MissingTransactions ==
    { r \in Range(receipt_transactions) :
        /\ r.transaction_ts + report.lookback_hours >= now
        /\ \A id \in receipt_lookup : id # r.transaction_id }

\* C15: a report of reconcile_gaps counts the operational rows inside the
\* lookback window that have no row in the analytics copy, and carries the
\* least and the greatest transaction_ts of those rows; so a transaction that
\* is missing inside the window gives gap_count >= 1 with its timestamp
\* between oldest_missing_ts and newest_missing_ts, and stores that hold the
\* same transaction_ids give gap_count = 0.
C15_GapReportCountsMissing ==
    report.kind = "report" =>
        /\ report.gap_count = Cardinality(MissingTransactions)
        /\ \A r \in MissingTransactions :
              /\ report.gap_count >= 1
              /\ report.oldest_missing_ts # NoneTs
              /\ report.newest_missing_ts # NoneTs
              /\ report.oldest_missing_ts[1] <= r.transaction_ts
              /\ r.transaction_ts <= report.newest_missing_ts[1]
        /\ MissingTransactions # {} =>
              /\ \E r \in MissingTransactions :
                    report.oldest_missing_ts = str(r.transaction_ts)
              /\ \E r \in MissingTransactions :
                    report.newest_missing_ts = str(r.transaction_ts)
        /\ MissingTransactions = {} =>
              report.oldest_missing_ts = NoneTs /\ report.newest_missing_ts = NoneTs
        /\ { r.transaction_id : r \in Range(receipt_transactions) } = receipt_lookup
              => report.gap_count = 0

\* A scan that reports one missing transaction while a second one, also
\* without a row in the analytics copy, lies before the lookback window.
C15_Witness ==
    /\ report.kind = "report"
    /\ receipt_lookup # {}
    /\ report.gap_count = 1
    /\ \E r \in Range(receipt_transactions) :
          /\ r.transaction_id \notin receipt_lookup
          /\ str(r.transaction_ts) # report.oldest_missing_ts

\* C16: a scan that cannot be carried out ends with a report that carries
\* the error, not with an exception.
C16_FailedScanReturnsReport ==
    report.error # "" => report.kind = "report"

\* C17: a wait_for_active call that has started ends. It returns True only
\* from a poll that found every synced table ACTIVE, and such a poll ends
\* it at once; it returns False only when timeout_seconds have passed since
\* its start; polls in which tables are PROVISIONING, FAILED or ERROR never
\* make it raise: it raises only before its first poll.
C17_WaitForActiveTerminates ==
    /\ [](wait.result = "True" =>
            wait.polls > 0 /\ \A s \in SYNCED_TABLE_MAP : wait.statuses[s] = "ACTIVE")
    /\ [](wait.state \in {"sleep", "loop"} /\ wait.polls > 0 =>
            \E s \in SYNCED_TABLE_MAP : wait.statuses[s] # "ACTIVE")
    /\ [](wait.result = "False" =>
            wait.state = "returned" /\ now - wait.start >= wait.timeout_seconds)
    /\ [](wait.state = "raised" => wait.polls = 0)
    /\ [](wait.state # "idle" => <>(wait.state \in {"returned", "raised"}))

\* The call returned False after two polls in which every status call
\* failed.
C17_Witness ==
    /\ wait.state = "returned" /\ wait.result = "False"
    /\ wait.polls >= 2
    /\ \A s \in SYNCED_TABLE_MAP : wait.statuses[s] = "ERROR"

\* The payload list has three entries of which only the second is malformed.
SecondOfThreeMalformed ==
    /\ Len(events.input) = 3
    /\ validate_total(events.input[1])
    /\ ~validate_total(events.input[2])
    /\ validate_total(events.input[3])

\* The batch operation on the payloads is over.
EventBatchOver == events.state = "ValidationError" \/ batch.state = "returned"

\* C18: a batch of three events whose second is malformed ends with three
\* results in input order, an exception at position 2 and successful outcomes
\* at positions 1 and 3, and nothing is written for the malformed event.
C18_MalformedSecondIsIsolated ==
    SecondOfThreeMalformed /\ EventBatchOver =>
        /\ Len(batch.result) = 3
        /\ batch.result[2].kind # "DualWriteResult"
        /\ batch.result[1].kind = "DualWriteResult"
        /\ batch.result[3].kind = "DualWriteResult"
        /\ \A i \in {1, 3} :
              batch.result[i].transaction_id = events.input[i].transaction_id

\* The own row of a task of the batch is in the operational store.
RowCommitted(t) == calls[t].committed > 0

\* C20: when a write_batch call is cancelled while items are in flight,
\* every item whose row is committed has its result or its exception
\* delivered to the caller, at its position, and it is the outcome the item
\* ended with.
C20_CancelledBatchDeliversOutcomes ==
    batch.state = "cancelled" =>
        \A i \in DOMAIN batch.tasks :
            RowCommitted(batch.tasks[i]) =>
                /\ i \in DOMAIN batch.result
                /\ batch.result[i] = outcome[batch.tasks[i]]

\* The analytics delivery of task t is in flight: its header record is
\* posted, its item records are not yet (zerobus_client.py lines 113-116).
DeliveryInFlight(t) == pc[t] = "post_items"

\* Task u waits for the answer to its commit or is about to deliver.
AwaitsCommitOrDelivery(u) == pc[u] \in {"commit", "zerobus"}

\* C21: while the analytics delivery of one transaction of a batch is in
\* flight, the operational write and the analytics delivery of every other
\* transaction of the batch can take their next step.
C21_DeliveriesOverlap ==
    \A t, u \in Tasks :
        (DeliveryInFlight(t) /\ u # t /\ AwaitsCommitOrDelivery(u)) =>
            ENABLED (conn_commit_ok(u) \/ ingest_receipt_header(u))

\* The event the constructor returned.
Constructed == events.receipts[1]

\* C22 (as stated): every constructed event has subtotal_cents + tax_cents
\* within 5 cents of total_cents, and every payload outside that bound fails
\* construction.
C22_TotalWithinTolerance ==
    events.state = "constructed" =>
        /\ Constructed.subtotal_cents # NoneCents
        /\ Constructed.tax_cents # NoneCents
        /\ Abs(Constructed.subtotal_cents + Constructed.tax_cents
               - Constructed.total_cents) <= 5

\* Both amounts the total is compared with are given.
HasAmounts(e) == e.subtotal_cents # NoneCents /\ e.tax_cents # NoneCents

\* C22 (amended): a constructed event that carries both subtotal_cents and
\* tax_cents has their sum within 5 cents of total_cents; a payload that
\* carries both and is further off is never constructed; a payload that
\* omits one of them is not checked against total_cents.
C22_TotalWithinToleranceWhenGiven ==
    LET e == events.input[1] IN
    /\ (events.state = "constructed" /\ HasAmounts(Constructed)) =>
           Abs(Constructed.subtotal_cents + Constructed.tax_cents
               - Constructed.total_cents) <= 5
    /\ (events.state # "none" /\ HasAmounts(e)
          /\ Abs(e.subtotal_cents + e.tax_cents - e.total_cents) > 5) =>
           events.state = "ValidationError"
    /\ (events.state # "none" /\ ~HasAmounts(e) /\ e.total_cents >= 0
          /\ e.items = << >>) =>
           events.state = "constructed"

C22_Witness ==
    /\ events.state = "constructed"
    /\ Constructed.subtotal_cents = 1000 /\ Constructed.tax_cents = 80
    /\ Constructed.total_cents = 1083

\* A line item without an identifier.
NoIdentifier(item) == item.upc = NULL /\ item.sku = NULL

\* C23: every line item of a constructed event has a non-null upc or a
\* non-null sku, and a payload with an item that has neither is never
\* constructed.
C23_UpcOrSkuRequired ==
    /\ events.state = "constructed" =>
           \A i \in DOMAIN Constructed.items : ~NoIdentifier(Constructed.items[i])
    /\ (events.state # "none"
          /\ \E i \in DOMAIN events.input[1].items :
                 NoIdentifier(events.input[1].items[i])) =>
           events.state = "ValidationError"

C23_Witness ==
    /\ events.state = "ValidationError"
    /\ Len(events.input[1].items) = 2
    /\ ~NoIdentifier(events.input[1].items[1])
    /\ events.input[1].items[1].quantity = 1
    /\ NoIdentifier(events.input[1].items[2])
    /\ events.input[1].items[2].quantity = 1

\* The digits of a string, in order.
DigitsOf(v) == SelectSeq(v, IsDigit)

\* The last n characters of a string.
Last(v, n) == SubSeq(v, Len(v) - n + 1, Len(v))

\* A masked prefix followed by at least four digits.
MaskedDigits(v) ==
    /\ v # NoCard
    /\ \E k \in 0..Len(v) :
          /\ Len(v) - k >= 4
          /\ \A i \in 1..k : v[i] = "*"
          /\ \A i \in (k + 1)..Len(v) : IsDigit(v[i])

\* C24: the normalized card_last4 is null or exactly four digits; null
\* gives null, a masked prefix followed by four or more digits gives the
\* last four of them, fewer than four digits give null, and in none of
\* these cases construction fails.
C24_CardLast4Normalized ==
    LET v == events.input[1].card_last4 IN
    events.state # "none" =>
        /\ (events.input[1].total_cents = 500 /\ events.input[1].items = << >>) =>
              events.state = "constructed"
        /\ events.state = "constructed" =>
              LET c == Constructed.card_last4 IN
              /\ c = NoCard \/ (Len(c) = 4 /\ \A i \in 1..4 : IsDigit(c[i]))
              /\ v = NoCard => c = NoCard
              /\ MaskedDigits(v) => c = Last(v, 4)
              /\ (v # NoCard /\ Len(DigitsOf(v)) < 4) => c = NoCard

C24_Witness ==
    /\ events.state = "constructed"
    /\ events.input[1].card_last4 = << "*", "*", "*", "*", "4", "5", "3", "2" >>
    /\ Constructed.card_last4 = << "4", "5", "3", "2" >>

\* The call of task t returned overall_status "partial" and no submission of
\* its transaction_id succeeded on the analytics path.
PartialNeverDelivered(t) ==
    /\ outcome[t].overall_status = "partial"
    /\ \A u \in Tasks :
          receipt[u].transaction_id = receipt[t].transaction_id =>
              zerobus_result[u].status # "success"

\* The scan with this lookback counts the transaction of task t.
CountedAsGap(t, lookback_hours) ==
    \E i \in GapRows(receipt_transactions, receipt_lookup, lookback_hours) :
        receipt_transactions[i].transaction_id = receipt[t].transaction_id

\* The lookback window covers the transaction of task t.
WindowCovers(t, lookback_hours) ==
    receipt[t].transaction_ts >= now - lookback_hours

\* A reconcile_gaps call returns its report in this step.
ScanReturns == report.kind = "none" /\ report'.kind = "report"

\* C25: a scan whose window covers a transaction that was written "partial"
\* and never delivered successfully counts it in gap_count, whether the
\* header append or the items append failed.
C25_PartialWriteIsCountedAsGap ==
    [][ScanReturns =>
          /\ report'.gap_count =
                Cardinality(GapRows(receipt_transactions, receipt_lookup,
                                    report'.lookback_hours))
          /\ \A t \in Tasks :
                (PartialNeverDelivered(t) /\ WindowCovers(t, report'.lookback_hours))
                    => CountedAsGap(t, report'.lookback_hours)]_vars

\* The pipelines have processed every record delivered to the log.
PipelineCaughtUp == receipt_lookup = LookupOf(pos_raw_receipts)

\* C27: once the pipelines have processed the delivered records, every
\* transaction that write_receipt wrote with overall_status "success" is in
\* the deduplicated copy and no scan counts it as a gap; this includes a
\* receipt with total_cents = 0.
C27_SuccessfulWriteIsOnlyTransientlyAGap ==
    PipelineCaughtUp =>
        \A t \in Tasks :
            outcome[t].overall_status = "success" =>
                /\ receipt[t].transaction_id \in receipt_lookup
                /\ \A h \in Lookbacks : ~CountedAsGap(t, h)

\* The transaction_ids that have a record in the analytics log.
LoggedIds ==
    { h.transaction_id : h \in pos_raw_receipts }
    \cup { i.transaction_id : i \in pos_raw_items }

\* C26: every transaction_id that has a record in the analytics log has a
\* committed row in the operational store, in every reachable state.
C26_LogNeverAheadOfStore ==
    \A id \in LoggedIds : HasRow(receipt_transactions, id)

C26_Witness ==
    /\ "T1" \in LoggedIds
    /\ pos_raw_items # {}
    /\ \E t \in Tasks :
          /\ receipt[t].transaction_id = "T2"
          /\ calls[t].fault = "commit"
          /\ ~HasRow(receipt_transactions, "T2")

\* The row stored for the transaction of task t.
StoredRow(t) ==
    receipt_transactions[CHOOSE i \in Rows(receipt[t].transaction_id) : TRUE]

\* The insert of task t met a committed row and inserted nothing.
DuplicateAbsorbed(t) ==
    /\ calls[t].execute = 1 /\ calls[t].commit = 1
    /\ calls[t].committed = 0
    /\ calls[t].fault \notin LakebaseFaults

\* C28: a committed row is never changed and never joined by a second row of
\* its transaction_id, whatever a later call with that transaction_id
\* carries; the later call, its insert absorbed, reports lakebase "success".
C28_CommittedRowIsNeverChanged ==
    [][/\ \A i \in DOMAIN receipt_transactions :
             /\ i \in DOMAIN receipt_transactions'
             /\ receipt_transactions'[i] = receipt_transactions[i]
             /\ \A j \in DOMAIN receipt_transactions' :
                   receipt_transactions'[j].transaction_id
                       = receipt_transactions[i].transaction_id => j = i
       /\ \A t \in Tasks :
             DuplicateAbsorbed(t)' =>
                 /\ lakebase_result'[t] = "success"
                 /\ pc'[t] \notin {"raised"}]_vars

C28_Witness ==
    \E t \in Tasks :
        /\ DuplicateAbsorbed(t)
        /\ pc[t] = "returned"
        /\ outcome[t].lakebase = "success"
        /\ StoredRow(t) # RowOf(receipt[t])

\* Task t has a connection of the pool checked out.
HoldsConnection(t) == calls[t].conn

\* C29: a call has a pooled connection checked out only while its insert or
\* its commit is outstanding; none is held while the analytics delivery
\* runs, and none after the call has returned or raised, whichever way the
\* operational write ended.
C29_ConnectionHeldOnlyDuringWrite ==
    \A t \in Tasks :
        /\ HoldsConnection(t) <=> pc[t] \in {"execute", "commit"}
        /\ pc[t] \in {"zerobus", "post_items", "returned", "raised"}
              => ~HoldsConnection(t)

C29_Witness ==
    \E t, u \in Tasks :
        /\ pc[t] = "raised" /\ calls[t].fault = "commit" /\ ~HoldsConnection(t)
        /\ pc[u] = "post_items" /\ ~HoldsConnection(u)

\* Task t's get_pool call returns in this step.
GetPoolReturns(t) == pool[t] = None /\ pool'[t] # None

\* Task t constructs a pool in this step.
Constructs(t) == Len(pools') = Len(pools) + 1 /\ pc'[t] = "open"

\* C30: a get_pool call made while an open pool exists returns that pool
\* whatever conninfo the caller passes; a pool carries the conninfo of the
\* call that constructed it, and no other call changes it.
C30_OpenPoolIsSharedWhateverConninfo ==
    [][\A t \in Tasks :
          /\ (GetPoolReturns(t) /\ FastPathHit) =>
                 /\ pool'[t] = _pool /\ _pool' = _pool
                 /\ pools'[_pool].conninfo = pools[_pool].conninfo
          /\ Constructs(t) => pools'[Len(pools')].conninfo = lakebase_conninfo(t)
          /\ \A p \in DOMAIN pools : pools'[p].conninfo = pools[p].conninfo]_vars

C30_Witness ==
    \E t, u \in Tasks :
        /\ pool[t] # None /\ pool[u] = pool[t]
        /\ ~pools[pool[t]].closed
        /\ lakebase_conninfo(t) # lakebase_conninfo(u)
        /\ pools[pool[t]].conninfo = "conninfo_b"

====
